---- MODULE Spec2Model ----
(***************************************************************************)
(* Measurement derivation and water-balance engine of aqua-weight.         *)
(*                                                                         *)
(* The store is the plants_measurements table (rows) and the plants table  *)
(* (plants).  Every action is one whole request handler, run against the   *)
(* store the way the handler's SQL statements run against MySQL.           *)
(*                                                                         *)
(* A nullable column or argument is a sequence of length at most one:      *)
(* None is NULL / Python None, Some(x) is a value.  Percentages are kept   *)
(* in hundredths of a percent (Python's round(x, 2)), so 2.5 % is 250.     *)
(* A timestamp is minute * SlotsPerMinute + sub-second slot.               *)
(***************************************************************************)
EXTENDS Integers, Sequences, FiniteSets, TLC

VARIABLES rows, plants, resp, nextId, edits, inflight

vars == <<rows, plants, resp, nextId, edits, inflight>>

-----------------------------------------------------------------------------
(* Bounds of the model *)

\* at most this many measurement rows are ever stored
MaxRows == 6

\* at most this many edits of stored rows
MaxEdits == 1

\* at most this many rows are stored in the runs that edit rows or inject faults
MaxEditRows == 2

\* at most this many rows are stored in the runs of the Corrector
MaxCorrRows == 3

\* at most this many rows are stored in the runs whose requests carry any
\* timestamp
MaxAnyRows == 4

\* the timestamps of those requests are the minutes 1..MaxMinute
MaxMinute == 2

\* at most this many rows are stored in the runs that read the watering
\* frequency
MaxFreqRows == 6

\* at most this many rows are stored in the runs that call the Deriver
MaxDeriveRows == 2

\* at most this many rows are stored before a repotting in the runs of the
\* Corrector over a repotted plant
MaxRepottedRows == 2

\* at most this many rows are ever inserted in the runs that delete rows
MaxInserted == 4

\* at most this many rows are stored or being written in the runs with two
\* concurrent requests
MaxRaceRows == 4

\* at most this many rows are stored in the runs with reported waterings
\* among Weighings
MaxReportedRows == 4

\* at most this many rows are stored in the runs that edit rows of every
\* origin
MaxMixedRows == 4

\* sub-second slots 0..999 of one whole-minute timestamp
SlotsPerMinute == 1000

\* day_secs of compute_frequency_days, in minutes
MinutesPerDay == 1440

\* the plants of the model
Plants == {"p1"}

\* the requests that may be in progress at the same time
Writers == {"w1", "w2"}

\* the minute of the latest stored row, 0 when there is none
Clock(rs) == IF rs = {} THEN 0
             ELSE (CHOOSE r \in rs : \A y \in rs : y.at <= r.at).at \div SlotsPerMinute

\* new rows arrive in timestamp order: a create request carries the minute
\* after the latest stored row (an edit may move a row back in time)
Minutes(rs) == {Clock(rs) + 1}

-----------------------------------------------------------------------------
(* Optional values *)

None == <<>>

Some(x) == <<x>>

IsNone(o) == o = <<>>

IsSome(o) == o # <<>>

Val(o) == o[1]

\* Python's (x or 0) / SQL's COALESCE(x, 0)
OrZero(o) == IF o = <<>> THEN 0 ELSE o[1]

Max2(a, b) == IF a >= b THEN a ELSE b

Min2(a, b) == IF a <= b THEN a ELSE b

At(minute, slot) == minute * SlotsPerMinute + slot

\* round-half-to-even of n / d for d > 0: Python's round() on an exact quotient
RoundHalfEvenDiv(n, d) ==
    LET a == IF n < 0 THEN -n ELSE n
        q == a \div d
        r == a % d
        m == IF 2 * r < d THEN q
             ELSE IF 2 * r > d THEN q + 1
             ELSE IF q % 2 = 0 THEN q ELSE q + 1
    IN IF n < 0 THEN -m ELSE m

\* round((x / float(y)) * 100.0, 2), in hundredths of a percent
Pct(x, y) == RoundHalfEvenDiv(x * 10000, y)

RECURSIVE SetSum(_, _)
\* the sum of f[r] over the rows r of S
SetSum(S, f) ==
    IF S = {} THEN 0
    ELSE LET r == CHOOSE x \in S : TRUE
         IN f[r] + SetSum(S \ {r}, f)

SetMin(S) == CHOOSE x \in S : \A y \in S : x <= y

SetMax(S) == CHOOSE x \in S : \A y \in S : x >= y

-----------------------------------------------------------------------------
(* Rows and the event predicates *)

Row(id, p, at, mw, ld, lw, wa, tpct, tg, dpct, dg) ==
    [id |-> id, plant |-> p, at |-> at,
     mw |-> mw, ld |-> ld, lw |-> lw, wa |-> wa,
     tpct |-> tpct, tg |-> tg, dpct |-> dpct, dg |-> dg]

\* the WHERE clause of get_last_watering_event
IsStrictWatering(r) ==
    /\ IsNone(r.mw)
    /\ r.tpct = Some(0)
    /\ IsNone(r.tg)
    /\ IsNone(r.dpct)
    /\ IsNone(r.dg)
    /\ IsSome(r.ld)
    /\ IsSome(r.lw)
    /\ IsSome(r.wa) /\ Val(r.wa) > 0

\* the WHERE clause of get_last_repotting_event
IsRepotting(r) ==
    /\ IsSome(r.mw)
    /\ IsSome(r.ld)
    /\ IsSome(r.wa)
    /\ IsNone(r.lw)
    /\ IsNone(r.tpct)
    /\ IsNone(r.tg)
    /\ IsNone(r.dpct)
    /\ IsNone(r.dg)

\* ORDER BY measured_at DESC LIMIT 1 over S: any row of the latest timestamp
LatestOf(S) ==
    IF S = {} THEN {None}
    ELSE {Some(r) : r \in {x \in S : \A y \in S : y.at <= x.at}}

\* the rows get_last_watering_event may return
LastWateringChoices(rs, p) ==
    LatestOf({r \in rs : r.plant = p /\ IsStrictWatering(r)})

\* the rows get_last_repotting_event may return
LastRepottingChoices(rs, p) ==
    LatestOf({r \in rs : r.plant = p /\ IsRepotting(r)})

\* the previous-row lookup of derive_weights; excl is the edited id or None
PrevRowChoices(rs, p, at, excl) ==
    LatestOf({r \in rs : /\ r.plant = p
                         /\ (IsNone(excl) \/ r.id # Val(excl))
                         /\ r.at < at})

-----------------------------------------------------------------------------
(* Weight Baseline Deriver: services/measurements.py derive_weights *)

\* prev: the previous row or None; lwe: the last strict Watering or None;
\* mw, ld, lw, wa: the request's optional weight, dry, wet and water added
\* a dry baseline that puts the candidate weight before the previous row's
DefaultLastDryCandidateFirst(ld, prev_measured_weight, mw, prev_last_dry) ==
    IF IsNone(ld)
    THEN IF IsSome(mw) THEN mw
         ELSE IF IsSome(prev_measured_weight) THEN prev_measured_weight
         ELSE prev_last_dry
    ELSE ld

\* "Fill defaults for last dry": explicit value, previous row's weight,
\* candidate weight, previous row's last_dry
DefaultLastDry(ld, prev_measured_weight, mw, prev_last_dry) ==
    IF IsNone(ld)
    THEN IF IsSome(prev_measured_weight) THEN prev_measured_weight
         ELSE IF IsSome(mw) THEN mw
         ELSE prev_last_dry
    ELSE ld

\* a wet baseline that is always carried from the previous row
DefaultLastWetCarried(lw, prev_last_wet, ld_local, last_watering_water_added) ==
    IF IsNone(lw) THEN prev_last_wet ELSE lw

\* "Fill defaults for last wet"
DefaultLastWet(lw, prev_last_wet, ld_local, last_watering_water_added) ==
    IF IsNone(lw)
    THEN IF IsNone(prev_last_wet) /\ IsSome(ld_local)
         THEN Some(OrZero(ld_local) + last_watering_water_added)
         ELSE prev_last_wet
    ELSE lw

\* a weighing that keeps the water_added_g computed from the payload
MeasurementWaterAddedFromPayload(wa_first, last_watering_water_added) ==
    wa_first

\* "measurement event": the water_added_g of a row that carries a weight
MeasurementWaterAdded(wa_first, last_watering_water_added) ==
    last_watering_water_added

derive_weights(prev, lwe, mw, ld, lw, wa) ==
    LET last_watering_water_added == IF IsSome(lwe) THEN Val(Val(lwe).wa) ELSE 0
        prev_measured_weight == IF IsSome(prev) THEN Val(prev).mw ELSE None
        prev_last_dry == IF IsSome(prev) THEN Val(prev).ld ELSE None
        prev_last_wet == IF IsSome(prev) THEN Val(prev).lw ELSE None
        ld_local == DefaultLastDry(ld, prev_measured_weight, mw, prev_last_dry)
        lw_first == DefaultLastWet(lw, prev_last_wet, ld_local,
                                   last_watering_water_added)
        wa_positive == IsSome(wa) /\ Val(wa) > 0
        wa_first ==
            IF wa_positive THEN Val(wa)
            ELSE IF IsNone(mw) THEN OrZero(lw_first) - OrZero(ld_local)
            ELSE last_watering_water_added
        from_wet == IsSome(lw) /\ Val(lw) > 0 /\ IsSome(ld_local)
        from_added == /\ ~from_wet
                      /\ wa_positive
                      /\ IsSome(ld_local) /\ Val(ld_local) > 0
        wa_local ==
            IF IsNone(mw)
            THEN IF from_wet THEN OrZero(lw_first) - OrZero(ld_local)
                 ELSE IF from_added THEN Val(wa)
                 ELSE wa_first
            ELSE MeasurementWaterAdded(wa_first, last_watering_water_added)
        lw_local ==
            IF IsNone(mw) /\ from_added /\ IsNone(lw)
            THEN Some(Val(wa) + Val(ld_local))
            ELSE lw_first
    IN [last_dry_weight_g |-> ld_local,
        last_wet_weight_g |-> lw_local,
        water_added_g |-> wa_local,
        prev_measured_weight |-> prev_measured_weight,
        last_watering_water_added |-> last_watering_water_added]

-----------------------------------------------------------------------------
(* Water-Loss Accumulator: helpers/water_loss.py calculate_water_loss *)

\* one row's term of the SUM: COALESCE(day_g, GREATEST(COALESCE(last_wet, 0)
\* - COALESCE(weight, 0), 0))
LossTerm(r) ==
    IF IsSome(r.dg) THEN Val(r.dg)
    ELSE Max2(OrZero(r.lw) - OrZero(r.mw), 0)

\* a window that takes in the row of the last Watering itself
LossWindowFromWatering(rs, p, after, upto, excl) ==
    {r \in rs : /\ r.plant = p
                /\ (IsNone(excl) \/ r.id # Val(excl))
                /\ r.at >= after
                /\ r.at <= upto}

\* the rows the SUM ranges over
LossWindow(rs, p, after, upto, excl) ==
    {r \in rs : /\ r.plant = p
                /\ (IsNone(excl) \/ r.id # Val(excl))
                /\ r.at > after
                /\ r.at <= upto}

\* the test the function carries commented out: water was added
IsWateringEventByWaterAdded(mw, water_added_g) == OrZero(water_added_g) > 0

\* is_watering_event: the measured weight is absent
IsWateringEvent(mw, water_added_g) == IsNone(mw)

\* a baseline that ignores the previous row's weight
BaselineLastWetOnly(mw, prev_mw, lw) == lw

\* baseline_for_day: the previous row's weight, else the last wet weight
BaselineForDay(mw, prev_mw, lw) ==
    IF IsSome(mw) /\ IsSome(prev_mw) THEN prev_mw ELSE lw

\* lwAdded: the caller's last_watering_water_added (optional: the repotting
\* flow passes a nullable column); lwe: what the function's own
\* get_last_watering_event returns; qfail: that lookup or the SUM raises
calculate_water_loss(rs, p, at, mw, lw, wa, lwAdded, prev_mw, excl, lwe, qfail) ==
    LET is_watering_event == IsWateringEvent(mw, wa)
        baseline_for_day == BaselineForDay(mw, prev_mw, lw)
        daydiff ==
            IF IsSome(mw) /\ IsSome(baseline_for_day)
            THEN Some(Max2(Val(baseline_for_day) - Val(mw), 0))
            ELSE None
        day_pct_first ==
            IF IsNone(daydiff) \/ IsNone(lwAdded) THEN None
            ELSE IF Val(lwAdded) > 0 THEN Some(Pct(Val(daydiff), Val(lwAdded)))
            ELSE IF OrZero(lw) > 0 THEN Some(Pct(Val(daydiff), Val(lw)))
            ELSE None
        found == IsSome(lwe) /\ ~qfail
        added == IF found THEN Val(Val(lwe).wa) ELSE 0
        summed ==
            IF found
            THEN SetSum(LossWindow(rs, p, Val(lwe).at, at, excl),
                        [r \in rs |-> LossTerm(r)])
            ELSE 0
        total_g == summed + OrZero(daydiff)
        total_pct == IF found /\ added > 0 THEN Some(Pct(total_g, added)) ELSE None
        day_pct ==
            IF found /\ added > 0 /\ IsNone(day_pct_first) /\ IsSome(daydiff)
            THEN Some(Pct(Val(daydiff), added))
            ELSE day_pct_first
    IN IF is_watering_event
       THEN [water_loss_day_g |-> None, water_loss_day_pct |-> None,
             water_loss_total_g |-> None, water_loss_total_pct |-> Some(0),
             is_watering_event |-> TRUE]
       ELSE [water_loss_day_g |-> daydiff, water_loss_day_pct |-> day_pct,
             water_loss_total_g |-> IF found THEN Some(total_g) ELSE None,
             water_loss_total_pct |-> total_pct,
             is_watering_event |-> FALSE]

-----------------------------------------------------------------------------
(* Water-Retention Normalizer: helpers/water_retained.py *)

\* The result is [kind |-> "value", n, d] for the percentage n / d,
\* [kind |-> "none"] for an unset water_retained_pct, and [kind |-> "raise"]
\* where the arithmetic on a None operand raises TypeError.
RetNone == [kind |-> "none", n |-> 0, d |-> 1]

RetRaise == [kind |-> "raise", n |-> 0, d |-> 1]

RetValue(n, d) == [kind |-> "value", n |-> n, d |-> d]

\* a saturated weight that never looks at the last wet weight
HistoricalSaturated(min_dry, max_water, lw) == Val(min_dry) + Val(max_water)

\* lines 59-66: the saturated weight, lowered to the last wet weight when
\* that is at least the dry weight
EffectiveSaturated(min_dry, max_water, lw) ==
    LET saturated_weight_g == Val(min_dry) + Val(max_water)
    IN IF IsSome(lw) /\ Val(lw) >= Val(min_dry)
       THEN Min2(saturated_weight_g, Val(lw))
       ELSE saturated_weight_g

calculate_water_retained(min_dry, max_water, mw_in, lw, tpct) ==
    LET mw == IF IsNone(mw_in) /\ tpct = Some(0) THEN lw ELSE mw_in
        have == IF IsNone(mw) THEN IsSome(lw) /\ IsSome(min_dry)
                ELSE IsSome(min_dry)
        water_remain_g == IF IsNone(mw) THEN Val(lw) - Val(min_dry)
                          ELSE Val(mw) - Val(min_dry)
        effective_saturated_weight_g == EffectiveSaturated(min_dry, max_water, lw)
        available_water_g == effective_saturated_weight_g - Val(min_dry)
    IN IF ~have THEN RetNone
       ELSE IF min_dry # mw
       THEN IF IsNone(max_water) THEN RetRaise
            ELSE IF available_water_g > 0
            THEN RetValue(100 * Max2(0, Min2(available_water_g, water_remain_g)),
                          available_water_g)
            ELSE RetNone
       ELSE IF IsSome(tpct) THEN RetValue(10000 - Val(tpct), 100)
       ELSE RetValue(100, 1)

-----------------------------------------------------------------------------
(* Plant Bound Maintainer: helpers/water_weight.py and its two scans *)

\* a scan that ignores the last Repotting
get_measured_weights_of_all_time(rs, p, last_repotting) ==
    {Val(r.mw) : r \in {x \in rs : x.plant = p /\ IsSome(x.mw)}}

\* helpers/weight_minimum.py: measured weights since the last Repotting
get_measured_weights_since_repotting(rs, p, last_repotting) ==
    {Val(r.mw) : r \in {x \in rs :
        /\ x.plant = p
        /\ IsSome(x.mw)
        /\ (IsNone(last_repotting) \/ x.at > Val(last_repotting).at)}}

\* helpers/watering_maximum.py: water added since the last Repotting
get_added_waterings_since_repotting(rs, p, last_repotting) ==
    {Val(r.wa) : r \in {x \in rs :
        /\ x.plant = p
        /\ IsSome(x.wa)
        /\ (IsNone(last_repotting) \/ x.at >= Val(last_repotting).at)}}

calculate_min_dry_weight_g(rs, p, last_repotting) ==
    LET weights == get_measured_weights_since_repotting(rs, p, last_repotting)
    IN IF weights = {} THEN None ELSE Some(SetMin(weights))

calculate_max_watering_added_g(rs, p, last_repotting) ==
    LET waterings == get_added_waterings_since_repotting(rs, p, last_repotting)
    IN IF waterings = {} THEN None ELSE Some(SetMax(waterings))

\* the two values update_min_dry_weight_and_max_watering_added_g writes
BoundsFor(rs, p, last_repotting, new_measured_weight_g, new_added_watering_g) ==
    LET current_weight_min == calculate_min_dry_weight_g(rs, p, last_repotting)
        current_watering_max == calculate_max_watering_added_g(rs, p, last_repotting)
        weight_min ==
            IF IsNone(current_weight_min)
               \/ (IsSome(new_measured_weight_g)
                   /\ Val(new_measured_weight_g) < Val(current_weight_min))
            THEN new_measured_weight_g
            ELSE current_weight_min
        watering_max ==
            IF IsNone(current_watering_max)
               \/ (IsSome(new_added_watering_g)
                   /\ Val(new_added_watering_g) > Val(current_watering_max))
            THEN new_added_watering_g
            ELSE current_watering_max
    IN [min_dry_weight_g |-> weight_min, max_water_weight_g |-> watering_max]

\* a helper that leaves the plants row alone when both candidates are absent
update_bounds_unless_absent(ps, rs, p, new_w, new_wa, fails) ==
    IF fails \/ (IsNone(new_w) /\ IsNone(new_wa)) THEN ps
    ELSE LET last_repotting == CHOOSE x \in LastRepottingChoices(rs, p) : TRUE
             b == BoundsFor(rs, p, last_repotting, new_w, new_wa)
         IN [ps EXCEPT ![p].min_dry_weight_g = b.min_dry_weight_g,
                       ![p].max_water_weight_g = b.max_water_weight_g]

\* the plants table after the helper ran on the rows rs; a failure inside
\* the helper is caught and printed, and the plants row is left as it was
update_min_dry_weight_and_max_watering_added_g(ps, rs, p, new_w, new_wa, fails) ==
    IF fails THEN ps
    ELSE LET last_repotting == CHOOSE x \in LastRepottingChoices(rs, p) : TRUE
             b == BoundsFor(rs, p, last_repotting, new_w, new_wa)
         IN [ps EXCEPT ![p].min_dry_weight_g = b.min_dry_weight_g,
                       ![p].max_water_weight_g = b.max_water_weight_g]

-----------------------------------------------------------------------------
(* Requests and responses *)

\* the statement of a write handler that raises, if any: the queries of
\* derive_weights, those of calculate_water_loss, the INSERT / UPDATE of the
\* row, the statements of the bound helper
Failures == {"none", "derive", "loss", "insert", "bounds"}

\* a validation that refuses a weight with any water_added_g, 0 included
ensure_weight_without_water(mw, wa) == IsSome(mw) /\ IsSome(wa)

\* services/measurements.py ensure_exclusive_water_vs_weight: TRUE when it raises
ensure_exclusive_water_vs_weight(mw, wa) == IsSome(mw) /\ OrZero(wa) > 0

NoDerived == [last_dry_weight_g |-> None, last_wet_weight_g |-> None,
              water_added_g |-> 0, prev_measured_weight |-> None,
              last_watering_water_added |-> 0]

NoLoss == [water_loss_day_g |-> None, water_loss_day_pct |-> None,
           water_loss_total_g |-> None, water_loss_total_pct |-> None,
           is_watering_event |-> FALSE]

NoArgs == [from_ts |-> None, to_ts |-> None, cap |-> "none", edit_last_wet |-> FALSE]

\* What a handler left behind.  op: the handler; status: "ok", "error" (an
\* exception left the handler) or "rejected" (HTTP 400 / 404); failed: the
\* statement that raised; committed: the handler's writes were committed;
\* id: the row written; mw: the weight the handler worked with; derived,
\* loss, retained: the results of the Deriver, Accumulator and Normalizer;
\* cand_w, cand_wa: the candidates handed to the bound helper; args, updated,
\* total_excess_g, details, target: the Corrector's parameters and summary
\* (on a failed run, updated counts the UPDATEs issued before the failing one)
\* measured_weight_g and water_added_g as the request carried them
Request(mw, wa) == [mw |-> mw, wa |-> wa]

NoRequest == Request(None, None)

\* the arguments of a call of derive_weights
DeriveCall(p, at, exclude, mw, ld, lw, wa) ==
    [plant |-> p, at |-> at, exclude |-> exclude, mw |-> mw, ld |-> ld,
     lw |-> lw, wa |-> wa]

NoDeriveCall == DeriveCall("", 0, None, None, None, None, None)

\* the arguments of a call of calculate_water_retained
NormCall(min_dry, max_water, mw, lw, tpct) ==
    [min_dry |-> min_dry, max_water |-> max_water, mw |-> mw, lw |-> lw,
     tpct |-> tpct]

NoNormCall == NormCall(None, None, None, None, None)

Reply(op, status, failed, committed, id) ==
    [op |-> op, status |-> status, failed |-> failed, committed |-> committed,
     id |-> id, mw |-> None, derived |-> NoDerived, loss |-> NoLoss,
     retained |-> RetNone, cand_w |-> None, cand_wa |-> None,
     args |-> NoArgs, updated |-> 0, total_excess_g |-> 0, details |-> {},
     target |-> None, req |-> NoRequest, frequency_days |-> None,
     event_count |-> 0, now |-> None, next_watering_at |-> None,
     call |-> NoDeriveCall, norm |-> NoNormCall, seen |-> {}]

NoResponse == Reply("none", "ok", "none", FALSE, None)

\* the reply to a create or an edit, with the values the request carried
ReplyTo(req, op, status, failed, committed, id) ==
    [Reply(op, status, failed, committed, id) EXCEPT !.req = req]

\* routes/measurements.py _compute_water_retained_for_plant, before its
\* round(): the Normalizer on the plant's committed bounds
compute_water_retained_for_plant(ps, p, mw, lw, tpct) ==
    calculate_water_retained(ps[p].min_dry_weight_g, ps[p].max_water_weight_g,
                             mw, lw, tpct)

\* round(None, 0) raises, so an unset percentage ends the handler in error
StatusAfterRetained(ret) == IF ret.kind = "value" THEN "ok" ELSE "error"

\* the statement that did raise: calculate_water_loss returns before its
\* first query when the weight is absent
Raised(fail, mw) == IF fail = "loss" /\ IsNone(mw) THEN "none" ELSE fail

\* a connection left in autocommit mode: every statement issued stays
RollbackInAutocommit(before, after) == after

\* what a failed transaction leaves behind: with autocommit off the rollback
\* restores the store `before`; `after` is the store the statements built
Rollback(before, after) == before

-----------------------------------------------------------------------------
(* create_measurement: routes/measurements.py *)

\* the row create_measurement inserts and update_measurement rewrites
WrittenRow(id, p, at, mw, d, loss) ==
    Row(id, p, at,
        IF loss.is_watering_event THEN None ELSE mw,
        d.last_dry_weight_g, d.last_wet_weight_g, Some(d.water_added_g),
        loss.water_loss_total_pct, loss.water_loss_total_g,
        loss.water_loss_day_pct, loss.water_loss_day_g)

create_measurement(p, minute, mw, ld, lw, wa, fail) ==
    LET at == At(minute, 0)
    IN IF ensure_exclusive_water_vs_weight(mw, wa)
       THEN /\ resp' = ReplyTo(Request(mw, wa),
                               "create", "rejected", "none", FALSE, None)
            /\ UNCHANGED <<rows, plants, nextId, edits>>
       ELSE IF fail = "derive"
       THEN /\ resp' = ReplyTo(Request(mw, wa),
                               "create", "error", fail, FALSE, None)
            /\ rows' = Rollback(rows, rows)
            /\ UNCHANGED <<plants, nextId, edits>>
       ELSE \E prev \in PrevRowChoices(rows, p, at, None),
               lwe1 \in LastWateringChoices(rows, p),
               lwe2 \in LastWateringChoices(rows, p) :
            LET d == derive_weights(prev, lwe1, mw, ld, lw, wa)
                loss == calculate_water_loss(rows, p, at, mw,
                            d.last_wet_weight_g, None,
                            Some(d.last_watering_water_added),
                            d.prev_measured_weight, None, lwe2,
                            Raised(fail, mw) = "loss")
                new == WrittenRow(nextId, p, at, mw, d, loss)
                inserted == rows \cup {new}
                check_min_weight ==
                    IF ~loss.is_watering_event /\ IsSome(new.mw)
                    THEN new.mw ELSE d.last_dry_weight_g
                check_max_water == Some(d.water_added_g)
                ps == update_min_dry_weight_and_max_watering_added_g(
                          plants, inserted, p, check_min_weight,
                          check_max_water, fail = "bounds")
                ret == compute_water_retained_for_plant(ps, p, new.mw,
                          d.last_wet_weight_g, loss.water_loss_total_pct)
            IN IF fail = "insert"
               THEN /\ resp' = [ReplyTo(Request(mw, wa),
                                        "create", "error", fail, FALSE, None)
                                  EXCEPT !.mw = mw, !.derived = d, !.loss = loss]
                    /\ rows' = Rollback(rows, rows)
                    /\ UNCHANGED <<plants, nextId, edits>>
               ELSE /\ rows' = inserted
                    /\ plants' = ps
                    /\ nextId' = nextId + 1
                    /\ resp' = [ReplyTo(Request(mw, wa),
                                        "create", StatusAfterRetained(ret),
                                      Raised(fail, mw), TRUE, Some(nextId))
                                  EXCEPT !.mw = mw, !.derived = d, !.loss = loss,
                                         !.retained = ret,
                                         !.cand_w = check_min_weight,
                                         !.cand_wa = check_max_water]
                    /\ UNCHANGED edits

-----------------------------------------------------------------------------
(* create_measurement as two steps of one transaction: its reads, then its
   INSERT, bound update and commit *)

\* the request of writer w read the rows `seen` and computed d and loss
InFlight(p, at, mw, wa, d, loss, seen) ==
    [plant |-> p, at |-> at, mw |-> mw, wa |-> wa, d |-> d, loss |-> loss,
     seen |-> seen]

\* lines 482-507: derive_weights and compute_water_losses read the committed
\* rows; no lock is taken and nothing is written yet
begin_create_measurement(w, p, minute, mw, ld, lw, wa) ==
    LET at == At(minute, 0)
    IN /\ ~ensure_exclusive_water_vs_weight(mw, wa)
       /\ \E prev \in PrevRowChoices(rows, p, at, None),
             lwe1 \in LastWateringChoices(rows, p),
             lwe2 \in LastWateringChoices(rows, p) :
            LET d == derive_weights(prev, lwe1, mw, ld, lw, wa)
                loss == calculate_water_loss(rows, p, at, mw,
                            d.last_wet_weight_g, None,
                            Some(d.last_watering_water_added),
                            d.prev_measured_weight, None, lwe2, FALSE)
            IN inflight' = [inflight EXCEPT
                               ![w] = Some(InFlight(p, at, mw, wa, d, loss, rows))]
       /\ UNCHANGED <<rows, plants, nextId, edits, resp>>

\* lines 509-590: the INSERT of the values computed from the rows read, the
\* bound update and the commit. The helper's scans run in the writer's
\* transaction: they see its own row and, depending on the isolation level,
\* the rows it read first or the rows committed by now
finish_create_measurement(w) ==
    /\ IsSome(inflight[w])
    /\ LET q == Val(inflight[w])
           new == WrittenRow(nextId, q.plant, q.at, q.mw, q.d, q.loss)
           check_min_weight ==
               IF ~q.loss.is_watering_event /\ IsSome(new.mw)
               THEN new.mw ELSE q.d.last_dry_weight_g
           check_max_water == Some(q.d.water_added_g)
       IN \E visible \in {q.seen, rows} :
            LET ps == update_min_dry_weight_and_max_watering_added_g(
                          plants, visible \cup {new}, q.plant, check_min_weight,
                          check_max_water, FALSE)
                ret == compute_water_retained_for_plant(ps, q.plant, new.mw,
                          q.d.last_wet_weight_g, q.loss.water_loss_total_pct)
            IN /\ rows' = rows \cup {new}
               /\ plants' = ps
               /\ nextId' = nextId + 1
               /\ resp' = [ReplyTo(Request(q.mw, q.wa), "create",
                                   StatusAfterRetained(ret), "none", TRUE,
                                   Some(nextId))
                             EXCEPT !.mw = q.mw, !.derived = q.d,
                                    !.loss = q.loss, !.retained = ret,
                                    !.cand_w = check_min_weight,
                                    !.cand_wa = check_max_water,
                                    !.seen = q.seen]
               /\ inflight' = [inflight EXCEPT ![w] = None]
    /\ UNCHANGED edits

-----------------------------------------------------------------------------
(* create_reported_watering: routes/measurements.py *)

\* a marker row: weight NULL, water_loss_total_pct 0, every other weight and
\* loss column NULL; nothing is derived and the plant is not touched
create_reported_watering(p, minute) ==
    /\ rows' = rows \cup {Row(nextId, p, At(minute, 0), None, None, None, None,
                              Some(0), None, None, None)}
    /\ nextId' = nextId + 1
    /\ resp' = Reply("reported", "ok", "none", TRUE, Some(nextId))
    /\ UNCHANGED <<plants, edits>>

-----------------------------------------------------------------------------
(* update_measurement: routes/measurements.py *)

\* payload value, falling back to the stored column
Effective(new, current) == IF IsSome(new) THEN new ELSE current

update_measurement(id, pl, fail) ==
    \E base \in {r \in rows : r.id = id} :
       LET p == base.plant
           mw_eff == Effective(pl.mw, base.mw)
           ld_eff == Effective(pl.ld, base.ld)
           lw_eff == Effective(pl.lw, base.lw)
           wa_eff_payload == Effective(pl.wa, base.wa)
           measured_at_eff == IF IsSome(pl.minute) THEN At(Val(pl.minute), 0)
                              ELSE base.at
       IN IF ensure_exclusive_water_vs_weight(pl.mw, pl.wa)
          THEN /\ resp' = ReplyTo(Request(pl.mw, pl.wa),
                                  "update", "rejected", "none", FALSE, Some(id))
               /\ UNCHANGED <<rows, plants, nextId, edits>>
          ELSE IF fail = "derive"
          THEN /\ resp' = ReplyTo(Request(pl.mw, pl.wa),
                                  "update", "error", fail, FALSE, Some(id))
               /\ rows' = Rollback(rows, rows)
               /\ UNCHANGED <<plants, nextId, edits>>
          ELSE \E prev \in PrevRowChoices(rows, p, measured_at_eff, Some(id)),
                  lwe1 \in LastWateringChoices(rows, p),
                  lwe2 \in LastWateringChoices(rows, p) :
               LET d == derive_weights(prev, lwe1, mw_eff, ld_eff, lw_eff,
                                       wa_eff_payload)
                   loss == calculate_water_loss(rows, p, measured_at_eff, mw_eff,
                               d.last_wet_weight_g, None,
                               Some(d.last_watering_water_added),
                               d.prev_measured_weight, Some(id), lwe2,
                               Raised(fail, mw_eff) = "loss")
                   new == WrittenRow(id, p, measured_at_eff, mw_eff, d, loss)
                   updated == (rows \ {base}) \cup {new}
                   check_min_weight ==
                       IF ~loss.is_watering_event THEN new.mw
                       ELSE d.last_dry_weight_g
                   ps == update_min_dry_weight_and_max_watering_added_g(
                             plants, updated, p, check_min_weight,
                             wa_eff_payload, fail = "bounds")
                   ret == compute_water_retained_for_plant(ps, p, mw_eff,
                             lw_eff, loss.water_loss_total_pct)
               IN IF fail = "insert"
                  THEN /\ resp' = [ReplyTo(Request(pl.mw, pl.wa),
                                           "update", "error", fail, FALSE, Some(id))
                                     EXCEPT !.mw = mw_eff, !.derived = d,
                                            !.loss = loss]
                       /\ rows' = Rollback(rows, rows)
                       /\ UNCHANGED <<plants, nextId, edits>>
                  ELSE /\ rows' = updated
                       /\ plants' = ps
                       /\ edits' = edits + 1
                       /\ resp' = [ReplyTo(Request(pl.mw, pl.wa),
                                           "update", StatusAfterRetained(ret),
                                         Raised(fail, mw_eff), TRUE, Some(id))
                                     EXCEPT !.mw = mw_eff, !.derived = d,
                                            !.loss = loss, !.retained = ret,
                                            !.cand_w = check_min_weight,
                                            !.cand_wa = wa_eff_payload]
                       /\ UNCHANGED nextId

-----------------------------------------------------------------------------
(* delete_measurement: routes/measurements.py *)

\* _post_delete_recalculate_and_commit: the bound helper runs only when the
\* deleted row carried a weight, with that weight as the candidate
post_delete_recalculate(ps, rs, p, measured_weight_g, fails) ==
    IF IsSome(measured_weight_g)
    THEN update_min_dry_weight_and_max_watering_added_g(ps, rs, p,
             measured_weight_g, None, fails)
    ELSE ps

\* fail = "delete": the DELETE raises and the handler rolls back;
\* fail = "bounds": a statement of the bound helper raises and is swallowed
delete_measurement(id, fail) ==
    /\ \E base \in {r \in rows : r.id = id} :
        IF fail = "delete"
        THEN /\ resp' = Reply("delete", "error", fail, FALSE, Some(id))
             /\ rows' = Rollback(rows, rows \ {base})
             /\ UNCHANGED plants
        ELSE LET remaining == rows \ {base}
             IN /\ rows' = remaining
                /\ plants' = post_delete_recalculate(plants, remaining,
                                  base.plant, base.mw, fail = "bounds")
                /\ resp' = [Reply("delete", "ok", fail, TRUE, Some(id))
                              EXCEPT !.mw = base.mw]
    /\ UNCHANGED <<nextId, edits>>

-----------------------------------------------------------------------------
(* Calibration Corrector: routes/measurements.py apply_measurements_corrections *)

\* parse_timestamp_local(str(measured_at), fixed_milliseconds=0): seconds and
\* sub-second slot are zeroed
MinuteStart(at) == (at \div SlotsPerMinute) * SlotsPerMinute

\* the last sub-second slot of a minute: to_ts is parsed with it
LastSlot == 999

\* the target weight of a run; rec_pct is the plant's COALESCE'd threshold
TargetWeight(cap_mode, min_dry, max_water, rec_pct) ==
    IF cap_mode = "capacity" THEN min_dry + max_water
    ELSE min_dry + RoundHalfEvenDiv(Max2(0, Min2(100, rec_pct)) * max_water, 100)

\* lower end of the window: from_ts, else the minute of the last Repotting
WindowFrom(rs, p, from_ts, to_ts) ==
    IF IsSome(from_ts) THEN Some(At(Val(from_ts), 0))
    ELSE IF IsSome(to_ts) THEN None
    ELSE LET last_repot == CHOOSE x \in LastRepottingChoices(rs, p) : TRUE
         IN IF IsSome(last_repot) THEN Some(MinuteStart(Val(last_repot).at))
            ELSE None

WindowTo(to_ts) == IF IsSome(to_ts) THEN Some(At(Val(to_ts), LastSlot)) ELSE None

\* the rows the SELECT of a run returns
CorrectionCandidates(rs, p, from_dt, to_dt, target) ==
    {r \in rs : /\ r.plant = p
                /\ IsNone(r.mw)
                /\ (IsNone(from_dt) \/ r.at >= Val(from_dt))
                /\ (IsNone(to_dt) \/ r.at <= Val(to_dt))
                /\ IsSome(r.lw) /\ Val(r.lw) > target}

Excess(r, target) == Max2(0, Val(r.lw) - target)

\* a rewrite that subtracts the excess without the floor at 0
CorrectedRowNoFloor(r, target, edit_last_wet) ==
    [r EXCEPT !.wa = Some(OrZero(r.wa) - Excess(r, target)),
              !.lw = IF edit_last_wet THEN Some(Min2(Val(r.lw), target)) ELSE r.lw]

\* one row's UPDATE
CorrectedRow(r, target, edit_last_wet) ==
    [r EXCEPT !.wa = Some(Max2(0, OrZero(r.wa) - Excess(r, target))),
              !.lw = IF edit_last_wet THEN Some(Min2(Val(r.lw), target)) ELSE r.lw]

\* r is updated before the row whose UPDATE raises (ORDER BY measured_at ASC)
Before(r, failing) ==
    r.at < failing.at \/ (r.at = failing.at /\ r.id < failing.id)

\* rs with the UPDATEs of the rows in sel applied
Corrected(rs, sel, target, edit_last_wet) ==
    (rs \ sel) \cup {CorrectedRow(r, target, edit_last_wet) : r \in sel}

apply_measurements_corrections(p, args, fail) ==
    LET min_dry == plants[p].min_dry_weight_g
        max_water == plants[p].max_water_weight_g
        rec == plants[p].recommended_water_threshold_pct
        rec_pct == IF IsSome(rec) THEN Val(rec) ELSE 100
        reply == [Reply("corrections", "ok", "none", FALSE, None)
                    EXCEPT !.args = args]
    IN /\ IF IsNone(min_dry) \/ IsNone(max_water) \/ OrZero(max_water) <= 0
          THEN /\ resp' = reply
               /\ UNCHANGED rows
          ELSE LET target == TargetWeight(args.cap, Val(min_dry), Val(max_water),
                                          rec_pct)
                   sel == CorrectionCandidates(rows, p,
                              WindowFrom(rows, p, args.from_ts, args.to_ts),
                              WindowTo(args.to_ts), target)
               IN IF sel = {}
                  THEN /\ resp' = reply
                       /\ UNCHANGED rows
                  ELSE IF fail = "none"
                  THEN /\ rows' = Corrected(rows, sel, target, args.edit_last_wet)
                       /\ resp' = [reply EXCEPT
                            !.committed = TRUE,
                            !.updated = Cardinality(sel),
                            !.total_excess_g =
                                SetSum(sel, [r \in rows |-> Excess(r, target)]),
                            !.details =
                                {[id |-> r.id, excess_g |-> Excess(r, target),
                                  new_water_added_g |->
                                      Val(CorrectedRow(r, target, FALSE).wa)]
                                 : r \in sel},
                            !.target = Some(target)]
                  ELSE \E failing \in sel :
                       LET early == {r \in sel : Before(r, failing)}
                       IN /\ rows' = Rollback(rows,
                                 Corrected(rows, early, target, args.edit_last_wet))
                          /\ resp' = [reply EXCEPT
                                !.status = "error", !.failed = "update",
                                !.id = Some(failing.id),
                                !.updated = Cardinality(early),
                                !.target = Some(target)]
       /\ UNCHANGED <<plants, nextId, edits>>

-----------------------------------------------------------------------------
(* create_repotting_event: routes/repotting.py *)

\* the connection runs with autocommit on: every INSERT is committed at once
create_repotting_event(p, minute, mw, repotted) ==
    /\ \E last \in LatestOf({r \in rows : r.plant = p}),
          lwe \in LastWateringChoices(rows, p) :
       IF IsNone(last)
       THEN /\ resp' = Reply("repotting", "rejected", "none", FALSE, None)
            /\ UNCHANGED <<rows, nextId>>
       ELSE LET prev == Val(last)
                first == Row(nextId, p, At(minute, 1), Some(mw), None, None,
                             prev.wa, None, None, None, None)
                loss == calculate_water_loss(rows \cup {first}, p, At(minute, 0),
                            Some(mw), prev.lw, None, prev.wa, prev.mw, None,
                            lwe, FALSE)
                second == Row(nextId + 1, p, At(minute, 2), None, prev.ld,
                              prev.lw, prev.wa, loss.water_loss_total_pct,
                              loss.water_loss_total_g, loss.water_loss_day_pct,
                              loss.water_loss_day_g)
                third == Row(nextId + 2, p, At(minute, 3), Some(repotted),
                             Some(repotted - OrZero(prev.wa)), None, prev.wa,
                             None, None, None, None)
            IN IF IsNone(prev.wa)
               THEN /\ rows' = rows \cup {first, second}
                    /\ nextId' = nextId + 2
                    /\ resp' = [Reply("repotting", "error", "insert", TRUE, None)
                                  EXCEPT !.mw = Some(mw), !.loss = loss]
               ELSE /\ rows' = rows \cup {first, second, third}
                    /\ nextId' = nextId + 3
                    /\ resp' = [Reply("repotting", "ok", "none", TRUE,
                                      Some(nextId + 2))
                                  EXCEPT !.mw = Some(mw), !.loss = loss]
    /\ UNCHANGED <<plants, edits>>

-----------------------------------------------------------------------------
(* Frequency Estimator: helpers/frequency.py *)

\* a sorted sequence with x put in its place
InsertSorted(s, x) ==
    LET k == Cardinality({i \in 1..Len(s) : s[i] <= x})
    IN SubSeq(s, 1, k) \o <<x>> \o SubSeq(s, k + 1, Len(s))

RECURSIVE SortAsc(_)
SortAsc(s) == IF s = <<>> THEN <<>> ELSE InsertSorted(SortAsc(Tail(s)), Head(s))

\* the measured_at column of a result set, one entry per row
RECURSIVE MeasuredAtOf(_)
MeasuredAtOf(S) ==
    IF S = {} THEN <<>>
    ELSE LET r == CHOOSE x \in S : TRUE
         IN <<r.at>> \o MeasuredAtOf(S \ {r})

\* the SELECT of _fetch_watering_events_since: weight NULL and
\* water_loss_total_pct = 0, at or after since_dt when there is one
WateringEventRowsAtOrAfter(rs, p, since_dt) ==
    {r \in rs : /\ r.plant = p
                /\ (IsNone(since_dt) \/ r.at >= Val(since_dt))
                /\ IsNone(r.mw)
                /\ r.tpct = Some(0)}

\* the same SELECT without the measured_at >= since_dt test
WateringEventRowsOfAllTime(rs, p, since_dt) ==
    {r \in rs : r.plant = p /\ IsNone(r.mw) /\ r.tpct = Some(0)}

\* the rows _fetch_watering_events_since selects
WateringEventRows(rs, p, since_dt) == WateringEventRowsAtOrAfter(rs, p, since_dt)

\* ORDER BY measured_at ASC
_fetch_watering_events_since(rs, p, since_dt) ==
    SortAsc(MeasuredAtOf(WateringEventRows(rs, p, since_dt)))

\* the gaps between consecutive events that are >= 0
IntervalsOf(events) ==
    LET all == [i \in 1..(Len(events) - 1) |-> events[i + 1] - events[i]]
    IN SelectSeq(all, LAMBDA dt : dt >= 0)

\* twice statistics.median of a non-empty sequence
TwiceMedian(s) ==
    LET sorted == SortAsc(s)
        n == Len(sorted)
    IN IF n % 2 = 1 THEN 2 * sorted[(n + 1) \div 2]
       ELSE sorted[n \div 2] + sorted[n \div 2 + 1]

\* int(freq): the median cut to whole days
TruncatedDays(twice_median) ==
    twice_median \div (2 * MinutesPerDay * SlotsPerMinute)

\* int(round(freq)): the median in days, rounded half to even
RoundedDays(twice_median) ==
    RoundHalfEvenDiv(twice_median, 2 * MinutesPerDay * SlotsPerMinute)

\* the pair (frequency_days, event_count) the function returns
FrequencyResult(frequency_days, event_count) ==
    [kind |-> "tuple", frequency_days |-> frequency_days,
     event_count |-> event_count]

\* last_repot: the row get_last_repotting_event returns, or None
compute_frequency_days(rs, p, last_repot) ==
    LET since_dt == IF IsSome(last_repot) THEN Some(Val(last_repot).at)
                    ELSE None
        events == _fetch_watering_events_since(rs, p, since_dt)
        event_count == Len(events)
        intervals_days == IntervalsOf(events)
    IN IF event_count < 2 THEN FrequencyResult(None, event_count)
       ELSE IF intervals_days = <<>> THEN FrequencyResult(None, event_count)
       ELSE FrequencyResult(Some(RoundedDays(TwiceMedian(intervals_days))),
                            event_count)

-----------------------------------------------------------------------------
(* Next-Watering Projector: helpers/plants_list.py PlantsList.fetch_all *)

\* freq_days after the except clause around compute_frequency_days
NoFrequency == [kind |-> "none", frequency_days |-> None, event_count |-> 0]

\* the latest row with weight NULL and water_loss_total_pct = 0, of all time
LastLooseWateringChoices(rs, p) ==
    LatestOf({r \in rs : r.plant = p /\ IsNone(r.mw) /\ r.tpct = Some(0)})

CeilDiv(n, d) == (n + d - 1) \div d

\* last_watering_at + timedelta(days=freq_days), rolled forward by whole
\* multiples of freq_days when it lies before now
projected_next_watering_at(freq_days, last_watering_at, now) ==
    LET period == freq_days * MinutesPerDay * SlotsPerMinute
        naive == last_watering_at + period
        steps == Max2(1, CeilDiv(now - last_watering_at, period))
    IN IF naive < now THEN last_watering_at + period * steps ELSE naive

\* one plant of the listing. freq_days is what compute_frequency_days returned,
\* a pair, or NoFrequency when the call raised; "freq_days > 0" on a pair
\* raises TypeError outside any try block, and the listing fails
fetch_all(p, now, fail) ==
    /\ \E last_repot \in LastRepottingChoices(rows, p),
          last_row \in LastLooseWateringChoices(rows, p) :
       LET freq_days == IF fail = "frequency" THEN NoFrequency
                        ELSE compute_frequency_days(rows, p, last_repot)
           listed == [Reply("plants_list", "ok", fail, FALSE, None)
                        EXCEPT !.now = Some(now)]
       IN IF freq_days.kind = "none"
          THEN resp' = listed
          ELSE IF freq_days.kind = "tuple"
          THEN resp' = [listed EXCEPT !.status = "error"]
          ELSE IF IsSome(freq_days.frequency_days)
                  /\ Val(freq_days.frequency_days) > 0 /\ IsSome(last_row)
          THEN resp' = [listed EXCEPT
                          !.frequency_days = freq_days.frequency_days,
                          !.next_watering_at =
                              Some(projected_next_watering_at(
                                       Val(freq_days.frequency_days),
                                       Val(last_row).at, now))]
          ELSE resp' = [listed EXCEPT
                          !.frequency_days = freq_days.frequency_days]
    /\ UNCHANGED <<rows, plants, nextId, edits>>

-----------------------------------------------------------------------------
(* Request values *)

\* the payloads of a create request: weight, dry, wet, water added
CreatePayloads ==
    { [mw |-> Some(80), ld |-> None, lw |-> None, wa |-> None],
      [mw |-> Some(90), ld |-> None, lw |-> None, wa |-> None],
      [mw |-> None, ld |-> None, lw |-> None, wa |-> None],
      [mw |-> None, ld |-> None, lw |-> None, wa |-> Some(20)],
      [mw |-> None, ld |-> None, lw |-> Some(70), wa |-> None],
      [mw |-> Some(80), ld |-> None, lw |-> None, wa |-> Some(20)] }

\* the payloads of an edit: a new minute, weight, dry, wet, water added
UpdatePayloads ==
    { [minute |-> None, mw |-> Some(80), ld |-> None, lw |-> None, wa |-> None],
      [minute |-> None, mw |-> None, ld |-> None, lw |-> None, wa |-> Some(20)],
      [minute |-> Some(1), mw |-> None, ld |-> None, lw |-> None, wa |-> None],
      [minute |-> None, mw |-> Some(80), ld |-> None, lw |-> None, wa |-> Some(20)] }

\* the payloads of the runs of the Corrector
CorrPayloads ==
    { [mw |-> Some(80), ld |-> None, lw |-> None, wa |-> None],
      [mw |-> None, ld |-> None, lw |-> None, wa |-> Some(20)],
      [mw |-> None, ld |-> Some(90), lw |-> None, wa |-> Some(20)] }

\* the payloads of the creates any statement of which may raise
FaultPayloads ==
    { [mw |-> Some(80), ld |-> None, lw |-> None, wa |-> None],
      [mw |-> Some(90), ld |-> None, lw |-> None, wa |-> None],
      [mw |-> None, ld |-> None, lw |-> None, wa |-> Some(20)],
      [mw |-> Some(80), ld |-> None, lw |-> None, wa |-> Some(0)],
      [mw |-> Some(80), ld |-> None, lw |-> None, wa |-> Some(20)] }

\* measured_weight_g and last_wet_weight_g of a repotting request
RepottingInputs == {[mw |-> 90, repotted |-> 60]}

\* the parameters of a Corrector run: from_ts / to_ts as minutes
\* the cap modes the handler accepts; any other is refused with HTTP 400
CapModes == {"capacity", "retained_ratio"}

CorrectionWindows ==
    { [from_ts |-> None, to_ts |-> None],
      [from_ts |-> Some(2), to_ts |-> None],
      [from_ts |-> None, to_ts |-> Some(2)] }

CorrectionArgs ==
    { [from_ts |-> w.from_ts, to_ts |-> w.to_ts, cap |-> c, edit_last_wet |-> e]
      : w \in CorrectionWindows, c \in CapModes, e \in BOOLEAN }

\* recommended_water_threshold_pct a plant may have been created with
RecPcts == {None, Some(33)}

-----------------------------------------------------------------------------
(* Spec: measurements and repottings arrive in timestamp order *)

InitWith(recs) ==
    /\ rows = {}
    /\ plants \in [Plants ->
                    [min_dry_weight_g : {None}, max_water_weight_g : {None},
                     recommended_water_threshold_pct : recs]]
    /\ resp = NoResponse
    /\ nextId = 1
    /\ edits = 0
    /\ inflight = [w \in Writers |-> None]

Init == InitWith({None})

CreateMeasurement ==
    /\ Cardinality(rows) < MaxRows
    /\ \E p \in Plants, minute \in Minutes(rows), pl \in CreatePayloads :
        create_measurement(p, minute, pl.mw, pl.ld, pl.lw, pl.wa, "none")
    /\ UNCHANGED inflight

CreateRepotting ==
    /\ Cardinality(rows) + 3 <= MaxRows
    /\ \E p \in Plants, minute \in Minutes(rows), pl \in RepottingInputs :
        create_repotting_event(p, minute, pl.mw, pl.repotted)
    /\ UNCHANGED inflight

Next ==
    \/ CreateMeasurement
    \/ CreateRepotting

Spec == Init /\ [][Next]_vars

-----------------------------------------------------------------------------
(* SpecFaults: creates and edits, any statement of which may raise *)

FaultyCreate ==
    /\ Cardinality(rows) < MaxEditRows
    /\ \E p \in Plants, minute \in Minutes(rows), pl \in FaultPayloads,
          fail \in Failures :
        create_measurement(p, minute, pl.mw, pl.ld, pl.lw, pl.wa, fail)
    /\ UNCHANGED inflight

FaultyUpdate ==
    /\ edits < MaxEdits
    /\ \E r \in rows, pl \in UpdatePayloads, fail \in Failures :
        update_measurement(r.id, pl, fail)
    /\ UNCHANGED inflight

NextFaults ==
    \/ FaultyCreate
    \/ FaultyUpdate

SpecFaults == Init /\ [][NextFaults]_vars

-----------------------------------------------------------------------------
(* SpecCorr: creates and runs of the Corrector, whose UPDATEs may raise *)

InitCorr == InitWith(RecPcts)

CorrCreate ==
    /\ Cardinality(rows) < MaxCorrRows
    /\ \E p \in Plants, minute \in Minutes(rows), pl \in CorrPayloads :
        create_measurement(p, minute, pl.mw, pl.ld, pl.lw, pl.wa, "none")
    /\ UNCHANGED inflight

ApplyCorrections ==
    \E p \in Plants, args \in CorrectionArgs :
        /\ args.cap \in CapModes
        /\ apply_measurements_corrections(p, args, "none")
        /\ UNCHANGED inflight

\* a run one of whose row UPDATEs raises
FailedCorrections ==
    \E p \in Plants, args \in CorrectionArgs :
        /\ args.cap \in CapModes
        /\ apply_measurements_corrections(p, args, "update")
        /\ UNCHANGED inflight

NextCorr ==
    \/ CorrCreate
    \/ ApplyCorrections
    \/ FailedCorrections

SpecCorr == InitCorr /\ [][NextCorr]_vars

-----------------------------------------------------------------------------
(* SpecAnyTime: requests carry any timestamp, not only one later than every
   stored row *)

AnyMinutes == 1..MaxMinute

\* the payloads of these creates
AnyTimePayloads ==
    { [mw |-> Some(80), ld |-> None, lw |-> None, wa |-> None],
      [mw |-> None, ld |-> None, lw |-> None, wa |-> Some(20)] }

CreateAtAnyTime ==
    /\ Cardinality(rows) < MaxAnyRows
    /\ \E p \in Plants, minute \in AnyMinutes, pl \in AnyTimePayloads :
        create_measurement(p, minute, pl.mw, pl.ld, pl.lw, pl.wa, "none")
    /\ UNCHANGED inflight

ReportWatering ==
    /\ Cardinality(rows) < MaxAnyRows
    /\ \E p \in Plants, minute \in AnyMinutes :
        create_reported_watering(p, minute)
    /\ UNCHANGED inflight

RepotAtAnyTime ==
    /\ Cardinality(rows) + 3 <= MaxAnyRows
    /\ \E p \in Plants, minute \in AnyMinutes, pl \in RepottingInputs :
        create_repotting_event(p, minute, pl.mw, pl.repotted)
    /\ UNCHANGED inflight

EditAtAnyTime ==
    /\ edits < MaxEdits
    /\ \E r \in rows, pl \in UpdatePayloads :
        update_measurement(r.id, pl, "none")
    /\ UNCHANGED inflight

NextAnyTime ==
    \/ CreateAtAnyTime
    \/ ReportWatering
    \/ RepotAtAnyTime
    \/ EditAtAnyTime

SpecAnyTime == Init /\ [][NextAnyTime]_vars

-----------------------------------------------------------------------------
(* SpecFreq: rows written days apart, and the reads of the watering frequency *)

\* the time between two writes: half a day, three days, a week (in minutes)
FreqGaps == {720, 4320, 10080}

FreqReport ==
    /\ Cardinality(rows) < MaxFreqRows
    /\ \E p \in Plants, gap \in FreqGaps :
        create_reported_watering(p, Clock(rows) + gap)
    /\ UNCHANGED inflight

FreqWater ==
    /\ Cardinality(rows) < MaxFreqRows
    /\ \E p \in Plants :
        create_measurement(p, Clock(rows) + 720, None, None, None, Some(20),
                           "none")
    /\ UNCHANGED inflight

FreqRepot ==
    /\ Cardinality(rows) + 3 <= MaxFreqRows
    /\ \E p \in Plants, pl \in RepottingInputs :
        create_repotting_event(p, Clock(rows) + 720, pl.mw, pl.repotted)
    /\ UNCHANGED inflight

\* a call of compute_frequency_days
EstimateFrequency ==
    /\ rows # {}
    /\ \E p \in Plants : \E last_repot \in LastRepottingChoices(rows, p) :
        LET r == compute_frequency_days(rows, p, last_repot)
        IN resp' = [Reply("frequency", "ok", "none", FALSE, None)
                      EXCEPT !.frequency_days = r.frequency_days,
                             !.event_count = r.event_count]
    /\ UNCHANGED <<rows, plants, nextId, edits>>
    /\ UNCHANGED inflight

\* a listing of the plants, some time after the latest write
FetchAll ==
    /\ rows # {}
    /\ \E p \in Plants, gap \in FreqGaps, fail \in {"none", "frequency"} :
        fetch_all(p, At(Clock(rows) + gap, 0), fail)
    /\ UNCHANGED inflight

NextFreq ==
    \/ FreqReport
    \/ FreqWater
    \/ FreqRepot
    \/ EstimateFrequency
    \/ FetchAll

SpecFreq == Init /\ [][NextFreq]_vars

-----------------------------------------------------------------------------
(* SpecDerive: a short history, and calls of derive_weights against it *)

\* the values a call carries: weight, dry, wet, water added
DerivePayloads ==
    [mw : {None, Some(80)}, ld : {None, Some(0), Some(90)},
     lw : {None, Some(70), Some(110)}, wa : {None, Some(0), Some(25)}]

\* the payloads of the creates that build the history
DeriveHistoryPayloads ==
    { [mw |-> Some(80), ld |-> None, lw |-> None, wa |-> None],
      [mw |-> Some(90), ld |-> None, lw |-> None, wa |-> None],
      [mw |-> None, ld |-> None, lw |-> None, wa |-> None],
      [mw |-> None, ld |-> None, lw |-> None, wa |-> Some(20)] }

DeriveCreate ==
    /\ Cardinality(rows) < MaxDeriveRows
    /\ \E p \in Plants, minute \in Minutes(rows), pl \in DeriveHistoryPayloads :
        create_measurement(p, minute, pl.mw, pl.ld, pl.lw, pl.wa, "none")
    /\ UNCHANGED inflight

\* the timestamp and the excluded id of a call: a new row after every stored
\* one, or a stored row edited in place or moved after every stored one
DeriveTargets(p) ==
    {[at |-> At(m, 0), exclude |-> None] : m \in Minutes(rows)}
    \cup {[at |-> r.at, exclude |-> Some(r.id)] : r \in {x \in rows : x.plant = p}}
    \cup {[at |-> At(m, 0), exclude |-> Some(r.id)] :
             m \in Minutes(rows), r \in {x \in rows : x.plant = p}}

\* derive_weights(cursor, plant, measured_at, weight, dry, wet, water added,
\* exclude_measurement_id), with its two lookups; a call does not depend on
\* the reply to the call before it
Derive ==
    /\ resp.op # "derive"
    /\ \E p \in Plants, pl \in DerivePayloads : \E t \in DeriveTargets(p) :
        \E prev \in PrevRowChoices(rows, p, t.at, t.exclude),
           lwe \in LastWateringChoices(rows, p) :
           resp' = [Reply("derive", "ok", "none", FALSE, None)
                      EXCEPT !.derived = derive_weights(prev, lwe, pl.mw, pl.ld,
                                                        pl.lw, pl.wa),
                             !.call = DeriveCall(p, t.at, t.exclude, pl.mw,
                                                 pl.ld, pl.lw, pl.wa)]
    /\ UNCHANGED <<rows, plants, nextId, edits>>
    /\ UNCHANGED inflight

NextDerive ==
    \/ DeriveCreate
    \/ Derive

SpecDerive == Init /\ [][NextDerive]_vars

-----------------------------------------------------------------------------
(* SpecRepotted: creates, one repotting, and runs of the Corrector *)

RepottedCreate ==
    /\ Cardinality(rows) < MaxRepottedRows
    /\ \E p \in Plants, minute \in Minutes(rows), pl \in CorrPayloads :
        create_measurement(p, minute, pl.mw, pl.ld, pl.lw, pl.wa, "none")
    /\ UNCHANGED inflight

RepottedRepot ==
    /\ Cardinality(rows) <= MaxRepottedRows
    /\ \E p \in Plants, minute \in Minutes(rows), pl \in RepottingInputs :
        create_repotting_event(p, minute, pl.mw, pl.repotted)
    /\ UNCHANGED inflight

RepottedCorrections ==
    \E p \in Plants, args \in CorrectionArgs :
        /\ args.cap \in CapModes
        /\ apply_measurements_corrections(p, args, "none")
        /\ UNCHANGED inflight

NextRepotted ==
    \/ RepottedCreate
    \/ RepottedRepot
    \/ RepottedCorrections

SpecRepotted == InitCorr /\ [][NextRepotted]_vars

-----------------------------------------------------------------------------
(* SpecBounds: creates, a repotting and calls of the bound helper *)

\* the payloads of these creates
BoundsPayloads ==
    { [mw |-> Some(80), ld |-> None, lw |-> None, wa |-> None],
      [mw |-> Some(90), ld |-> None, lw |-> None, wa |-> None],
      [mw |-> None, ld |-> None, lw |-> None, wa |-> Some(20)] }

\* the candidates of a call of the bound helper
BoundCandidates ==
    { [w |-> None, wa |-> None], [w |-> Some(70), wa |-> Some(30)] }

BoundsCreate ==
    /\ nextId <= MaxInserted
    /\ \E p \in Plants, minute \in Minutes(rows), pl \in BoundsPayloads :
        create_measurement(p, minute, pl.mw, pl.ld, pl.lw, pl.wa, "none")
    /\ UNCHANGED inflight

BoundsRepot ==
    /\ nextId + 2 <= MaxInserted
    /\ \E p \in Plants, minute \in Minutes(rows), pl \in RepottingInputs :
        create_repotting_event(p, minute, pl.mw, pl.repotted)
    /\ UNCHANGED inflight

\* a call of update_min_dry_weight_and_max_watering_added_g
MaintainBounds ==
    /\ rows # {}
    /\ \E p \in Plants, c \in BoundCandidates, fails \in BOOLEAN :
        /\ plants' = update_min_dry_weight_and_max_watering_added_g(
                         plants, rows, p, c.w, c.wa, fails)
        /\ resp' = [Reply("bounds", "ok", IF fails THEN "bounds" ELSE "none",
                          ~fails, None)
                      EXCEPT !.cand_w = c.w, !.cand_wa = c.wa]
    /\ UNCHANGED <<rows, nextId, edits>>
    /\ UNCHANGED inflight

NextBounds ==
    \/ BoundsCreate
    \/ BoundsRepot
    \/ MaintainBounds

SpecBounds == Init /\ [][NextBounds]_vars

-----------------------------------------------------------------------------
(* SpecDelete: creates, a repotting, edits and deletes *)

DeleteEdit ==
    /\ edits < MaxEdits
    /\ \E r \in rows, pl \in UpdatePayloads :
        update_measurement(r.id, pl, "none")
    /\ UNCHANGED inflight

DeleteRow ==
    /\ rows # {}
    /\ \E r \in rows, fail \in {"none", "delete", "bounds"} :
        delete_measurement(r.id, fail)
    /\ UNCHANGED inflight

NextDelete ==
    \/ BoundsCreate
    \/ BoundsRepot
    \/ DeleteEdit
    \/ DeleteRow

SpecDelete == Init /\ [][NextDelete]_vars

-----------------------------------------------------------------------------
(* SpecRetained: calls of the Normalizer *)

\* the arguments of those calls; percentages in hundredths
RetainedCalls ==
    { NormCall(min_dry, max_water, mw, lw, tpct) :
        min_dry \in {None, Some(80)},
        max_water \in {None, Some(0), Some(20), Some(40)},
        mw \in {None, Some(70), Some(80), Some(90), Some(100), Some(130)},
        lw \in {None, Some(70), Some(80), Some(100), Some(110)},
        tpct \in {None, Some(0), Some(2500)} }

\* a call of calculate_water_retained
Normalize ==
    /\ \E c \in RetainedCalls :
        resp' = [Reply("retained", "ok", "none", FALSE, None)
                   EXCEPT !.norm = c,
                          !.retained = calculate_water_retained(
                              c.min_dry, c.max_water, c.mw, c.lw, c.tpct)]
    /\ UNCHANGED <<rows, plants, nextId, edits>>
    /\ UNCHANGED inflight

NextRetained == Normalize

SpecRetained == Init /\ [][NextRetained]_vars

-----------------------------------------------------------------------------
(* SpecRace: two create_measurement requests in progress at the same time *)

\* the payloads of these requests
RacePayloads ==
    { [mw |-> Some(80), ld |-> None, lw |-> None, wa |-> None],
      [mw |-> Some(90), ld |-> None, lw |-> None, wa |-> None],
      [mw |-> Some(100), ld |-> None, lw |-> None, wa |-> None],
      [mw |-> None, ld |-> None, lw |-> None, wa |-> Some(20)] }

\* the requests in progress
Started == {w \in Writers : IsSome(inflight[w])}

\* a request carries a minute later than every stored row and than every
\* request in progress
RaceMinutes ==
    LET taken == {Clock(rows)}
                 \cup {Val(inflight[w]).at \div SlotsPerMinute : w \in Started}
    IN {SetMax(taken) + 1}

RaceBegin ==
    /\ Cardinality(rows) + Cardinality(Started) < MaxRaceRows
    /\ \E w \in Writers \ Started, p \in Plants, minute \in RaceMinutes,
          pl \in RacePayloads :
        begin_create_measurement(w, p, minute, pl.mw, pl.ld, pl.lw, pl.wa)

RaceFinish ==
    /\ Started # {}
    /\ \E w \in Started : finish_create_measurement(w)

NextRace ==
    \/ RaceBegin
    \/ RaceFinish

SpecRace == Init /\ [][NextRace]_vars

-----------------------------------------------------------------------------
(* SpecReported: Weighings, Waterings and reported waterings, half a day
   or three days apart, the frequency estimate and the listing *)

ReportedPayloads ==
    { [mw |-> Some(80), ld |-> None, lw |-> None, wa |-> None],
      [mw |-> Some(70), ld |-> None, lw |-> None, wa |-> None],
      [mw |-> None, ld |-> None, lw |-> None, wa |-> Some(20)] }

ReportedGaps == {720, 4320}

ReportedCreate ==
    /\ Cardinality(rows) < MaxReportedRows
    /\ \E p \in Plants, gap \in ReportedGaps, pl \in ReportedPayloads :
        create_measurement(p, Clock(rows) + gap, pl.mw, pl.ld, pl.lw, pl.wa,
                           "none")
    /\ UNCHANGED inflight

ReportedReport ==
    /\ Cardinality(rows) < MaxReportedRows
    /\ \E p \in Plants, gap \in ReportedGaps :
        create_reported_watering(p, Clock(rows) + gap)
    /\ UNCHANGED inflight

NextReported ==
    \/ ReportedCreate
    \/ ReportedReport
    \/ EstimateFrequency
    \/ FetchAll

SpecReported == Init /\ [][NextReported]_vars

-----------------------------------------------------------------------------
(* SpecMixed: creates, reported waterings and a repotting in timestamp order,
   and edits of any stored row *)

MixedPayloads ==
    { [mw |-> Some(80), ld |-> None, lw |-> None, wa |-> None],
      [mw |-> Some(90), ld |-> Some(70), lw |-> None, wa |-> None],
      [mw |-> None, ld |-> None, lw |-> None, wa |-> Some(20)] }

\* the payloads of these edits: a weight, a water_added, a timestamp
MixedEdits ==
    { [minute |-> None, mw |-> Some(85), ld |-> None, lw |-> None, wa |-> None],
      [minute |-> None, mw |-> None, ld |-> None, lw |-> None, wa |-> Some(30)],
      [minute |-> Some(1), mw |-> None, ld |-> None, lw |-> None, wa |-> None] }

MixedCreate ==
    /\ Cardinality(rows) < MaxMixedRows
    /\ \E p \in Plants, minute \in Minutes(rows), pl \in MixedPayloads :
        create_measurement(p, minute, pl.mw, pl.ld, pl.lw, pl.wa, "none")
    /\ UNCHANGED inflight

MixedReport ==
    /\ Cardinality(rows) < MaxMixedRows
    /\ \E p \in Plants, minute \in Minutes(rows) :
        create_reported_watering(p, minute)
    /\ UNCHANGED inflight

MixedRepot ==
    /\ Cardinality(rows) + 3 <= MaxMixedRows
    /\ \E p \in Plants, minute \in Minutes(rows), pl \in RepottingInputs :
        create_repotting_event(p, minute, pl.mw, pl.repotted)
    /\ UNCHANGED inflight

MixedEdit ==
    /\ edits < MaxEdits
    /\ \E r \in rows, pl \in MixedEdits :
        update_measurement(r.id, pl, "none")
    /\ UNCHANGED inflight

NextMixed ==
    \/ MixedCreate
    \/ MixedReport
    \/ MixedRepot
    \/ MixedEdit

SpecMixed == Init /\ [][NextMixed]_vars

-----------------------------------------------------------------------------
(* Write-path atomicity *)

\* the plants table once the bound update of the write in resp' took effect
BoundsAfterWrite ==
    IF IsNone(resp'.id) THEN plants
    ELSE LET r == CHOOSE x \in rows' : x.id = Val(resp'.id)
         IN update_min_dry_weight_and_max_watering_added_g(
                plants, rows', r.plant, resp'.cand_w, resp'.cand_wa, FALSE)

\* C1: a create or an edit in which no statement failed leaves the written
\* row and the bound update it brings about visible together; a create or an
\* edit in which a statement failed, or which was refused, leaves the rows
\* and the plant bounds as they were.
C1_WriteAndBoundUpdateAreOneUnit ==
    [][resp'.op \in {"create", "update"} =>
         IF resp'.failed = "none" /\ resp'.status # "rejected"
         THEN /\ \E r \in rows' : r.id = Val(resp'.id)
              /\ plants' = BoundsAfterWrite
         ELSE rows' = rows /\ plants' = plants]_vars

-----------------------------------------------------------------------------
(* Calibration Corrector: idempotence, batch atomicity, per-row rewrite *)

\* C2: a run of the Corrector that directly follows a completed run with the
\* same parameters reports updated = 0 and changes no row.
C2_SecondRunIsNoOp ==
    [][(/\ resp.op = "corrections" /\ resp.status = "ok"
        /\ resp'.op = "corrections" /\ resp'.failed = "none"
        /\ resp'.args = resp.args)
       => (resp'.updated = 0 /\ rows' = rows)]_vars

\* C3: a run of the Corrector in which a row UPDATE fails leaves every row
\* as it was before the run, the rows updated before the failing one
\* included, and reports failure.
C3_FailedBatchRollsBack ==
    [][(resp'.op = "corrections" /\ resp'.failed = "update")
       => (rows' = rows /\ plants' = plants /\ resp'.status = "error")]_vars

\* a failed run that had issued at least one UPDATE before the failing one
C3_Witness ==
    /\ resp.op = "corrections"
    /\ resp.failed = "update"
    /\ resp.status = "error"
    /\ resp.updated > 0

\* the target weight of a run as the design states it; an absent threshold
\* counts as 100
C4_Target(p, cap) ==
    LET min_dry == Val(plants[p].min_dry_weight_g)
        max_water == Val(plants[p].max_water_weight_g)
        rec_pct == IF IsSome(plants[p].recommended_water_threshold_pct)
                   THEN Val(plants[p].recommended_water_threshold_pct) ELSE 100
        \* round(rec_pct / 100 * max_water), halves to the even neighbour
        twice == 2 * rec_pct * max_water
        floor2 == twice \div 200
        rounded == IF twice % 200 < 100 THEN floor2
                   ELSE IF twice % 200 > 100 THEN floor2 + 1
                   ELSE IF floor2 % 2 = 0 THEN floor2 ELSE floor2 + 1
    IN IF cap = "capacity" THEN min_dry + max_water ELSE min_dry + rounded

\* C4: every row a completed run rewrites had last_wet above the target;
\* its water_added becomes max(0, water_added - excess) with excess =
\* last_wet - target, its last_wet becomes min(last_wet, target) when
\* edit_last_wet is set and stays otherwise; updated is the number of
\* rewritten rows and total_excess_g the sum of their excesses.
C4_PerRowRewrite ==
    [][(resp'.op = "corrections" /\ resp'.status = "ok" /\ resp'.details # {})
       => \E p \in Plants :
          LET target == C4_Target(p, resp'.args.cap)
              ids == {d.id : d \in resp'.details}
              old(i) == CHOOSE r \in rows : r.id = i
              new(i) == CHOOSE r \in rows' : r.id = i
              excess(i) == Val(old(i).lw) - target
          IN /\ resp'.target = Some(target)
             /\ \A i \in ids :
                  /\ excess(i) > 0
                  /\ new(i).wa = Some(Max2(0, OrZero(old(i).wa) - excess(i)))
                  /\ new(i).lw = IF resp'.args.edit_last_wet
                                 THEN Some(Min2(Val(old(i).lw), target))
                                 ELSE old(i).lw
                  /\ new(i) = [old(i) EXCEPT !.wa = new(i).wa, !.lw = new(i).lw]
             /\ resp'.updated = Cardinality(ids)
             /\ resp'.total_excess_g = SetSum(ids, [i \in ids |-> excess(i)])
             /\ rows' \ {new(i) : i \in ids} = rows \ {old(i) : i \in ids}]_vars

\* a completed run under the retained_ratio cap that rewrote two rows, one
\* of them down to water_added = 0
C4_Witness ==
    /\ resp.op = "corrections"
    /\ resp.status = "ok"
    /\ resp.args.cap = "retained_ratio"
    /\ resp.args.edit_last_wet
    /\ resp.updated = 2
    /\ \E d \in resp.details : d.new_water_added_g = 0
    /\ \E d \in resp.details : d.new_water_added_g > 0

-----------------------------------------------------------------------------
(* Normalizer range and Deriver sign *)

\* C5: whenever the Normalizer yields a defined water_retained_pct, the
\* value lies in [0, 100], the branch weight = min_dry included.
C5_RetainedWithinRange ==
    resp.retained.kind = "value" =>
        /\ 0 <= resp.retained.n
        /\ resp.retained.n <= 100 * resp.retained.d

\* C6: the water_added_g that derive_weights returns is never negative.
C6_WaterAddedNonNegative ==
    resp.op = "create" => resp.derived.water_added_g >= 0

-----------------------------------------------------------------------------
(* Water-Loss Accumulator *)

\* the row the create in resp wrote
WrittenByCreate == CHOOSE r \in rows : r.id = Val(resp.id)

\* a create that stored a Weighing, a create that stored a Watering
CreatedWeighing == resp.op = "create" /\ resp.committed /\ IsSome(resp.mw)

CreatedWatering == resp.op = "create" /\ resp.committed /\ IsNone(resp.mw)

\* C7: for a measurement without a weight the Accumulator reports a
\* watering event with water_loss_total_pct = 0 and leaves day_g, day_pct
\* and total_g unset, whatever the history holds; the row is stored so.
C7_LossOfAWatering ==
    CreatedWatering =>
        /\ resp.loss = [water_loss_day_g |-> None, water_loss_day_pct |-> None,
                        water_loss_total_g |-> None,
                        water_loss_total_pct |-> Some(0),
                        is_watering_event |-> TRUE]
        /\ WrittenByCreate.tpct = Some(0)
        /\ IsNone(WrittenByCreate.tg)
        /\ IsNone(WrittenByCreate.dpct)
        /\ IsNone(WrittenByCreate.dg)

\* a Watering with water added, stored after a Weighing that lost water
\* and after a Watering stored with water_added = 0
C7_Witness ==
    /\ CreatedWatering
    /\ resp.derived.water_added_g > 0
    /\ \E x \in rows : IsSome(x.dg) /\ Val(x.dg) > 0
    /\ \E y \in rows : y.id # Val(resp.id) /\ IsNone(y.mw) /\ y.wa = Some(0)

\* the weight a repotting request carries is measured against the row stored
\* last before the request: its weight, else its last_wet, else nothing
C8_DailyLossOfRepotting ==
    (resp.op = "repotting" /\ resp.committed) =>
        LET top == CHOOSE x \in rows : \A y \in rows : y.at <= x.at
            earlier == {x \in rows : x.at < MinuteStart(top.at)}
            prev == CHOOSE x \in earlier : \A y \in earlier : y.at <= x.at
            baseline == IF IsSome(prev.mw) THEN prev.mw ELSE prev.lw
        IN resp.loss.water_loss_day_g =
               IF IsSome(baseline)
               THEN Some(Max2(Val(baseline) - Val(resp.mw), 0))
               ELSE None

\* C8: the day_g of a Weighing is max(baseline - weight, 0), the baseline
\* being the weight of the row stored just before it when that row has one
\* and the derived last_wet otherwise; it is never negative, and it is
\* unset only when neither baseline exists.
C8_DailyLoss ==
    /\ C8_DailyLossOfRepotting
    /\ CreatedWeighing =>
        LET r == WrittenByCreate
            earlier == {x \in rows : x.plant = r.plant /\ x.at < r.at}
            prev == CHOOSE x \in earlier : \A y \in earlier : y.at <= x.at
            baseline == IF earlier # {} /\ IsSome(prev.mw) THEN prev.mw
                        ELSE resp.derived.last_wet_weight_g
        IN /\ r.dg = IF IsSome(baseline)
                     THEN Some(Max2(Val(baseline) - Val(resp.mw), 0))
                     ELSE None
           /\ resp.loss.water_loss_day_g = r.dg
           /\ IsSome(r.dg) => Val(r.dg) >= 0

\* a Weighing above the weight of the row before it (day_g = 0), stored
\* after a Weighing whose baseline was the last wet weight (day_g > 0)
C8_Witness ==
    /\ CreatedWeighing
    /\ IsSome(resp.derived.prev_measured_weight)
    /\ Val(resp.derived.prev_measured_weight) < Val(resp.mw)
    /\ resp.loss.water_loss_day_g = Some(0)
    /\ \E x \in rows : /\ IsSome(x.dg) /\ Val(x.dg) > 0
                       /\ \E w \in rows : /\ IsNone(w.mw) /\ IsSome(w.lw)
                                          /\ w.at < x.at
                                          /\ x.dg = Some(Val(w.lw) - Val(x.mw))

\* C9: with a strict last Watering stored, the total_g of a Weighing is the
\* sum over the stored rows later than that Watering and not later than the
\* Weighing of the row's day_g (of max(last_wet - weight, 0), an absent
\* operand counting as 0, when day_g is unset) plus the Weighing's own
\* day_g; when those rows are all Weighings with a day_g, it is the sum of
\* their day_g and its own; without a strict Watering total_g and total_pct
\* are unset.
C9_CumulativeLoss ==
    CreatedWeighing =>
        LET r == WrittenByCreate
            stored == {x \in rows : x.plant = r.plant /\ x.id # r.id}
            waterings == {x \in stored : IsStrictWatering(x)}
            last == CHOOSE x \in waterings : \A y \in waterings : y.at <= x.at
            window == {x \in stored : x.at > last.at /\ x.at <= r.at}
            term == [x \in window |->
                        IF IsSome(x.dg) THEN Val(x.dg)
                        ELSE Max2(OrZero(x.lw) - OrZero(x.mw), 0)]
            day == [x \in window \cup {r} |-> OrZero(x.dg)]
        IN IF waterings = {}
           THEN IsNone(r.tg) /\ IsNone(r.tpct)
           ELSE /\ r.tg = Some(SetSum(window, term) + OrZero(r.dg))
                /\ resp.loss.water_loss_total_g = r.tg
                /\ (\A x \in window : IsSome(x.mw) /\ IsSome(x.dg))
                     => r.tg = Some(SetSum(window \cup {r}, day))

\* the second Weighing after a strict Watering, both having lost water
C9_Witness ==
    /\ CreatedWeighing
    /\ IsSome(resp.loss.water_loss_day_g)
    /\ Val(resp.loss.water_loss_day_g) > 0
    /\ IsSome(resp.loss.water_loss_total_g)
    /\ Val(resp.loss.water_loss_total_g) > Val(resp.loss.water_loss_day_g)
    /\ \E w \in rows :
         /\ IsStrictWatering(w)
         /\ Cardinality({x \in rows : x.at > w.at /\ IsSome(x.mw)}) = 2
         /\ \A x \in rows : x.at > w.at => IsSome(x.mw)

-----------------------------------------------------------------------------
(* Plant Bound Maintainer *)

\* C10: after a write whose bound update succeeded, min_dry_weight_g is the
\* minimum of the weights stored for the plant later than its last
\* Repotting and the candidate weight, and max_water_weight_g the maximum
\* of the water_added values stored from its last Repotting on and the
\* candidate water; either is unset when there is nothing to take it from.
C10_BoundsRecomputed ==
    (resp.op = "create" /\ resp.committed) =>
        LET p == WrittenByCreate.plant
            mine == {x \in rows : x.plant = p}
            repottings == {x \in mine : IsRepotting(x)}
            weights == {Val(x.mw) : x \in {y \in mine :
                            /\ IsSome(y.mw)
                            /\ \A t \in repottings : y.at > t.at}}
                       \cup {resp.cand_w[i] : i \in DOMAIN resp.cand_w}
            waters == {Val(x.wa) : x \in {y \in mine :
                            /\ IsSome(y.wa)
                            /\ \A t \in repottings : y.at >= t.at}}
                      \cup {resp.cand_wa[i] : i \in DOMAIN resp.cand_wa}
        IN /\ plants[p].min_dry_weight_g =
                IF weights = {} THEN None ELSE Some(SetMin(weights))
           /\ plants[p].max_water_weight_g =
                IF waters = {} THEN None ELSE Some(SetMax(waters))

\* a Weighing stored after a Repotting, with lighter weights stored before
\* the Repotting and on it
C10_Witness ==
    /\ CreatedWeighing
    /\ \E t \in rows :
         /\ IsRepotting(t)
         /\ t.at < WrittenByCreate.at
         /\ Val(t.mw) < Val(plants[t.plant].min_dry_weight_g)
         /\ \E x \in rows : /\ x.at < t.at /\ IsSome(x.mw)
                            /\ Val(x.mw) < Val(plants[t.plant].min_dry_weight_g)

-----------------------------------------------------------------------------
(* Ordering of a plant's rows *)

\* C11: no two measurement rows of one plant carry the same measured_at.
C11_DistinctMeasuredAt ==
    \A r1 \in rows : \A r2 \in rows :
        (r1.plant = r2.plant /\ r1.at = r2.at) => r1.id = r2.id

-----------------------------------------------------------------------------
(* Validation of a request *)

\* the request carries a weight together with a positive water_added_g
C12_WeightAndWater(pl) == IsSome(pl.mw) /\ IsSome(pl.wa) /\ Val(pl.wa) > 0

\* C12: create_measurement and update_measurement reject a request exactly
\* when it carries a non-null measured_weight_g together with
\* water_added_g > 0; a rejected request performs no derivation and leaves
\* every row and the plant's bounds unchanged.
C12_ExclusivityValidation ==
    [][ resp'.op \in {"create", "update"} =>
          /\ (resp'.status = "rejected") <=> C12_WeightAndWater(resp'.req)
          /\ C12_WeightAndWater(resp'.req) =>
                /\ rows' = rows
                /\ plants' = plants
                /\ resp'.derived = NoDerived
                /\ resp'.loss = NoLoss
                /\ ~resp'.committed
      ]_vars

\* an edit carrying both values was rejected while the plant has a row and
\* bounds
C12_Witness ==
    /\ resp.op = "update"
    /\ resp.status = "rejected"
    /\ rows # {}
    /\ \E p \in Plants : IsSome(plants[p].min_dry_weight_g)

-----------------------------------------------------------------------------
(* Watering frequency and the next watering *)

\* the loose Watering rows of the plant that no Repotting row follows
C13_EventsSinceRepotting(p) ==
    {r \in rows : /\ r.plant = p
                  /\ IsNone(r.mw)
                  /\ r.tpct = Some(0)
                  /\ \A q \in rows : (q.plant = p /\ IsRepotting(q)) => q.at <= r.at}

C14_TwiceMedianGap(p) ==
    TwiceMedian(IntervalsOf(SortAsc(MeasuredAtOf(C13_EventsSinceRepotting(p)))))

\* two days, the unit of C14_TwiceMedianGap
C14_TwoDays == 2 * MinutesPerDay * SlotsPerMinute

C15_Projected(f, L, now) ==
    LET period == f * MinutesPerDay * SlotsPerMinute
        elapsed == now - L
        steps == IF elapsed <= period THEN 1
                 ELSE CHOOSE k \in 1..(elapsed \div period + 1) :
                          k * period >= elapsed /\ (k - 1) * period < elapsed
    IN IF L + period >= now THEN L + period ELSE L + period * steps

\* C15: a listing of a plant with frequency f > 0 and a last loose Watering at
\* L carries next = L + f when that is not before now, else L + f * steps with
\* steps = max(1, ceil((now - L) / f)).
C15_NextWateringProjection ==
    \A p \in Plants :
        \A last_repot \in LastRepottingChoices(rows, p) :
            \A last_row \in LastLooseWateringChoices(rows, p) :
                LET f == compute_frequency_days(rows, p, last_repot).frequency_days
                IN (/\ resp.op = "plants_list"
                    /\ resp.failed # "frequency"
                    /\ IsSome(f) /\ Val(f) > 0
                    /\ IsSome(last_row))
                   => /\ resp.status = "ok"
                      /\ resp.next_watering_at =
                           Some(C15_Projected(Val(f), Val(last_row).at,
                                              Val(resp.now)))

-----------------------------------------------------------------------------
(* Weight Baseline Deriver *)

\* the rows that precede the call's timestamp, the edited row left out, and
\* have the latest timestamp among those
C16_Preceding ==
    LET before == {r \in rows : /\ r.plant = resp.call.plant
                                /\ r.at < resp.call.at
                                /\ resp.call.exclude # Some(r.id)}
    IN {r \in before : \A y \in before : y.at <= r.at}

\* water_added_g of the plant's last strict Watering, 0 when it has none
C16_LastWateringWater ==
    LET ws == {r \in rows : r.plant = resp.call.plant /\ IsStrictWatering(r)}
    IN IF ws = {} THEN 0
       ELSE Val((CHOOSE w \in ws : \A y \in ws : y.at <= w.at).wa)

\* the call carries a positive water_added_g
C16_PositiveWater == IsSome(resp.call.wa) /\ Val(resp.call.wa) > 0

\* C16: without an explicit last_wet and without a positive explicit
\* water_added_g the Deriver returns last_dry + the last strict Watering's
\* water_added_g when the preceding row has no last_wet and a dry baseline is
\* available, else the preceding row's last_wet; an explicit last_wet is
\* returned unchanged.
C16_WetBaseline ==
    resp.op = "derive" =>
        LET c == resp.call
            d == resp.derived
            carried == {r \in C16_Preceding : IsSome(r.lw)}
        IN /\ IsSome(c.lw) => d.last_wet_weight_g = c.lw
           /\ (IsNone(c.lw) /\ ~C16_PositiveWater) =>
                IF carried = {} /\ IsSome(d.last_dry_weight_g)
                THEN d.last_wet_weight_g
                       = Some(Val(d.last_dry_weight_g) + C16_LastWateringWater)
                ELSE IF carried = {} THEN IsNone(d.last_wet_weight_g)
                ELSE \E r \in carried : d.last_wet_weight_g = r.lw

\* dry baseline 80, last strict Watering of 20, no preceding last_wet: wet 100
C16_Witness ==
    /\ resp.op = "derive"
    /\ IsNone(resp.call.lw)
    /\ ~C16_PositiveWater
    /\ \A r \in C16_Preceding : IsNone(r.lw)
    /\ C16_LastWateringWater = 20
    /\ resp.derived.last_dry_weight_g = Some(80)
    /\ resp.derived.last_wet_weight_g = Some(100)

\* C17: the Deriver's last_dry is the first available of: the explicit value,
\* the preceding row's weight (the edited row left out), the candidate
\* weight, the preceding row's last_dry.
C17_DryBaselinePriority ==
    resp.op = "derive" =>
        LET c == resp.call
            dry == resp.derived.last_dry_weight_g
            weighed == {r \in C16_Preceding : IsSome(r.mw)}
        IN IF IsSome(c.ld) THEN dry = c.ld
           ELSE IF weighed # {} THEN \E r \in weighed : dry = r.mw
           ELSE IF IsSome(c.mw) THEN dry = c.mw
           ELSE IF C16_Preceding = {} THEN IsNone(dry)
           ELSE \E r \in C16_Preceding : dry = r.ld

\* an edit moves the latest row, a weighing, to a later time and carries
\* another weight: the dry baseline is the weight of the row before it
C17_Witness ==
    /\ resp.op = "derive"
    /\ IsNone(resp.call.ld)
    /\ IsSome(resp.call.mw)
    /\ \E e \in rows :
          /\ resp.call.exclude = Some(e.id)
          /\ e.at < resp.call.at
          /\ IsSome(e.mw)
          /\ \A y \in rows : y.at <= e.at
          /\ \E r \in C16_Preceding :
                /\ IsSome(r.mw)
                /\ r.mw # e.mw
                /\ r.mw # resp.call.mw
                /\ resp.derived.last_dry_weight_g = r.mw

\* C18: when the weight is absent and the returned last_wet and last_dry are
\* both non-null with last_wet - last_dry >= 0, the returned water_added_g
\* equals last_wet - last_dry.
C18_WateringFlowConsistency ==
    (/\ resp.op = "derive"
     /\ IsNone(resp.call.mw)
     /\ IsSome(resp.derived.last_wet_weight_g)
     /\ IsSome(resp.derived.last_dry_weight_g)
     /\ Val(resp.derived.last_wet_weight_g)
          >= Val(resp.derived.last_dry_weight_g))
    => resp.derived.water_added_g
         = Val(resp.derived.last_wet_weight_g)
             - Val(resp.derived.last_dry_weight_g)

\* C19: when the weight is present the returned water_added_g is the
\* water_added_g of the last strict Watering (0 when there is none), whatever
\* explicit values the call carries.
C19_WeighingCase ==
    (resp.op = "derive" /\ IsSome(resp.call.mw))
        => resp.derived.water_added_g = C16_LastWateringWater

\* a weighing that carries explicit dry, wet and water added values after a
\* strict Watering of 20
C19_Witness ==
    /\ resp.op = "derive"
    /\ IsSome(resp.call.mw)
    /\ resp.call.wa = Some(25)
    /\ IsSome(resp.call.ld)
    /\ IsSome(resp.call.lw)
    /\ C16_LastWateringWater = 20
    /\ resp.derived.water_added_g = 20

-----------------------------------------------------------------------------
(* Selection and frame of the Corrector *)

\* r lies in the window of the run: from_ts and to_ts as given, else from the
\* plant's last Repotting on
C20_InWindow(r, args) ==
    LET repots == {q \in rows : q.plant = r.plant /\ IsRepotting(q)}
    IN /\ IsSome(args.from_ts) => r.at >= At(Val(args.from_ts), 0)
       /\ IsSome(args.to_ts) => r.at <= At(Val(args.to_ts), LastSlot)
       /\ (IsNone(args.from_ts) /\ IsNone(args.to_ts)) =>
             \A q \in repots : q.at <= r.at

\* the calibration of the plant is incomplete
C20_Uncalibrated(p) ==
    \/ IsNone(plants[p].min_dry_weight_g)
    \/ IsNone(plants[p].max_water_weight_g)
    \/ Val(plants[p].max_water_weight_g) <= 0

\* C20: a run of the Corrector changes only loose Watering rows of the plant
\* (weight null, water_loss_total_pct = 0) inside the window (by default from
\* the last Repotting on) whose last_wet exceeds the target; every other row
\* and every field of the plant stay as they were, and with an incomplete
\* calibration nothing changes and updated = 0.
C20_SelectionAndFrame ==
    [][resp'.op = "corrections" =>
        /\ plants' = plants
        /\ {r.id : r \in rows'} = {r.id : r \in rows}
        /\ \A p \in Plants :
            /\ C20_Uncalibrated(p) => (rows' = rows /\ resp'.updated = 0)
            /\ \A r \in rows \ rows' :
                 /\ r.plant = p
                 /\ IsNone(r.mw)
                 /\ r.tpct = Some(0)
                 /\ C20_InWindow(r, resp'.args)
                 /\ IsSome(r.lw)
                 /\ ~C20_Uncalibrated(p)
                 /\ Val(r.lw) > C4_Target(p, resp'.args.cap)
      ]_vars

-----------------------------------------------------------------------------
(* Bound Maintainer called without candidates *)

\* the step is a call of the bound helper with both candidates absent
C21_CalledWithoutCandidates ==
    resp'.op = "bounds" /\ IsNone(resp'.cand_w) /\ IsNone(resp'.cand_wa)

\* the extrema of the plant's stored rows: the lightest weight stored later
\* than its last Repotting, the largest water_added stored from it on
C21_Extrema(p) ==
    LET mine == {x \in rows : x.plant = p}
        repottings == {x \in mine : IsRepotting(x)}
        weights == {Val(y.mw) : y \in {y \in mine :
                        IsSome(y.mw) /\ \A t \in repottings : y.at > t.at}}
        waters == {Val(y.wa) : y \in {y \in mine :
                        IsSome(y.wa) /\ \A t \in repottings : y.at >= t.at}}
    IN [min_dry_weight_g |-> IF weights = {} THEN None ELSE Some(SetMin(weights)),
        max_water_weight_g |-> IF waters = {} THEN None ELSE Some(SetMax(waters))]

-----------------------------------------------------------------------------
(* Normalizer: capacity self-correction *)

\* the weight the Normalizer works on: the measured weight, or the last wet
\* weight of a Watering whose cumulative loss is 0
C22_Weight(c) == IF IsNone(c.mw) /\ c.tpct = Some(0) THEN c.lw ELSE c.mw

\* the capacity the claim names
C22_Available(c) ==
    IF IsSome(c.lw) /\ Val(c.lw) >= Val(c.min_dry)
    THEN Min2(Val(c.min_dry) + Val(c.max_water), Val(c.lw)) - Val(c.min_dry)
    ELSE Val(c.max_water)

\* C22: with both bounds known and a weight (the measured one or, for a
\* Watering with cumulative loss 0, last_wet in its place) that differs from
\* min_dry, the Normalizer returns clamp((weight - min_dry) / available, 0, 1)
\* x 100, where available = min(min_dry + max_water, last_wet) - min_dry if
\* last_wet >= min_dry and max_water otherwise; it returns nothing when
\* available <= 0.
C22_CapacitySelfCorrection ==
    LET c == resp.norm
        w == C22_Weight(c)
        available == C22_Available(c)
        remain == Val(w) - Val(c.min_dry)
    IN (/\ resp.op = "retained"
        /\ IsSome(c.min_dry) /\ IsSome(c.max_water)
        /\ IsSome(w) /\ w # c.min_dry) =>
          IF available <= 0 THEN resp.retained = RetNone
          ELSE /\ resp.retained.kind = "value"
               /\ resp.retained.n * available
                    = 100 * Max2(0, Min2(available, remain)) * resp.retained.d

\* a weight strictly inside a capacity that the last wet weight lowered
C22_Witness ==
    LET c == resp.norm
    IN /\ resp.op = "retained"
       /\ c.min_dry = Some(80) /\ c.max_water = Some(40) /\ c.lw = Some(100)
       /\ c.mw = Some(90)
       /\ resp.retained = RetValue(1000, 20)

-----------------------------------------------------------------------------
(* Retained percentage after a committed write *)

\* C23: a create or an edit that was committed and in which no statement
\* failed is answered with success; when the Normalizer has no percentage for
\* the written row the answer carries 0 instead of failing.
C23_CommittedWriteIsNotAnError ==
    (/\ resp.op \in {"create", "update"}
     /\ resp.committed
     /\ resp.failed = "none") => resp.status = "ok"

-----------------------------------------------------------------------------
(* Writer race *)

\* the step commits the request of writer w
C24_Commits(w) == IsSome(inflight[w]) /\ IsNone(inflight'[w])

\* the writer ran alone: no other request committed between its reads and
\* its commit
C24_RanAlone(w) == Val(inflight[w]).seen = rows

\* the losses of the row the create in resp wrote are those a create running
\* alone stores for it: day_g against the row stored just before it, total_g
\* accumulated since the last Watering
C24_SerialLosses == C8_DailyLoss /\ C9_CumulativeLoss

\* C24: a create_measurement request that runs alone (no other request
\* commits between its reads and its commit) stores the day_g and total_g
\* of serial execution; two requests for one plant that overlap can both
\* derive from the same previous row, and then the later row's day_g and
\* total_g differ from the serial ones.
C24_SingleWriterNoDivergence ==
    [][\A w \in Writers :
         (C24_Commits(w) /\ C24_RanAlone(w)) => C24_SerialLosses']_vars

\* two overlapping requests read the same rows; the one with the later
\* timestamp committed last, with a day_g and a total_g that differ from the
\* serial ones
C24_Witness ==
    /\ CreatedWeighing
    /\ resp.seen # rows \ {WrittenByCreate}
    /\ \A x \in rows : x.at <= WrittenByCreate.at
    /\ \E x \in rows \ resp.seen : x.id # Val(resp.id) /\ IsSome(x.mw)
    /\ ~C8_DailyLoss
    /\ ~C9_CumulativeLoss

-----------------------------------------------------------------------------
(* Reported waterings *)

\* a row written by create_reported_watering: a loose Watering with no
\* weights and no water_added
C25_Reported(r) ==
    /\ IsNone(r.mw) /\ r.tpct = Some(0)
    /\ IsNone(r.ld) /\ IsNone(r.lw) /\ IsNone(r.wa)

\* the plant's latest loose Watering is a reported one
C25_LastLooseIsReported(p) ==
    \E L \in rows :
        /\ L.plant = p /\ C25_Reported(L)
        /\ \A y \in rows : (y.plant = p /\ IsNone(y.mw) /\ y.tpct = Some(0))
                              => y.at <= L.at

\* the Frequency Estimator counts the reported rows among its events
C25_CountedByEstimator ==
    resp.op = "frequency" =>
        \E p \in Plants :
            resp.event_count = Cardinality(C13_EventsSinceRepotting(p))

\* the Projector projects from a reported row when that is the latest loose
\* Watering
C25_UsedByProjector ==
    \A p \in Plants : \A L \in rows :
        (/\ resp.op = "plants_list" /\ resp.failed = "none"
         /\ L.plant = p /\ C25_Reported(L) /\ C25_LastLooseIsReported(p)
         /\ \A y \in rows : y.at <= L.at
         /\ Cardinality(C13_EventsSinceRepotting(p)) >= 2
         /\ C14_TwiceMedianGap(p) >= C14_TwoDays)
        => \E f \in 1..30 :
             resp.next_watering_at = Some(C15_Projected(f, L.at, Val(resp.now)))

\* get_last_watering_event never returns a reported row
C25_NeverStrict ==
    \A p \in Plants : \A w \in LastWateringChoices(rows, p) :
        IsSome(w) => ~C25_Reported(Val(w))

\* a Weighing stored after a reported watering keeps the water_added of the
\* earlier strict Watering and goes on accumulating from it
C25_WeighingsKeepStrictWatering ==
    (CreatedWeighing /\ C25_LastLooseIsReported(WrittenByCreate.plant)) =>
        LET r == WrittenByCreate
            ws == {x \in rows : x.plant = r.plant /\ IsStrictWatering(x)}
            S == CHOOSE x \in ws : \A y \in ws : y.at <= x.at
        IN ws # {} => /\ r.wa = S.wa
                      /\ C9_CumulativeLoss

\* C25: a reported watering is a loose Watering but not a strict one: the
\* Frequency Estimator counts it, the Projector takes it as the last
\* watering, get_last_watering_event never returns it, and a Weighing stored
\* after it keeps the water_added and the accumulation start of the earlier
\* strict Watering (total_g is not reset).
C25_ReportedIsLooseNotStrict ==
    /\ C25_CountedByEstimator
    /\ C25_UsedByProjector
    /\ C25_NeverStrict
    /\ C25_WeighingsKeepStrictWatering

-----------------------------------------------------------------------------
(* Stored daily loss against the stored history *)

\* the rows of r's plant stored just before r
C26_Preceding(r) ==
    LET earlier == {x \in rows : x.plant = r.plant /\ x.at < r.at}
    IN {x \in earlier : \A y \in earlier : y.at <= x.at}

\* C26: after any sequence of creates, edits and deletes, every stored
\* Weighing whose immediately preceding row carries a weight w_prev has
\* water_loss_day_g = max(w_prev - weight, 0).
C26_DailyLossMatchesHistory ==
    \A r \in rows : \A x \in C26_Preceding(r) :
        (/\ IsSome(r.mw)
         /\ r.at % SlotsPerMinute = 0
         /\ IsSome(x.mw))
        => r.dg = Some(Max2(Val(x.mw) - Val(r.mw), 0))

-----------------------------------------------------------------------------
(* Plant bounds after a delete *)

\* C27: after a delete_measurement that succeeded, the plant's
\* min_dry_weight_g is the minimum weight over the rows that remain since the
\* last Repotting and its max_water_weight_g the maximum water_added over
\* them; the deleted row influences neither.
C27_BoundsAfterDelete ==
    (resp.op = "delete" /\ resp.status = "ok" /\ resp.failed = "none") =>
        \A p \in Plants :
            /\ plants[p].min_dry_weight_g = C21_Extrema(p).min_dry_weight_g
            /\ plants[p].max_water_weight_g = C21_Extrema(p).max_water_weight_g

-----------------------------------------------------------------------------
(* Repotting sequence *)

\* C28: the three rows create_repotting_event writes are stored all or
\* none: a request that succeeds adds the three of them, and a request that
\* is refused or in which a step after the first INSERT fails (the new dry
\* weight cannot be computed because the last event has no water_added)
\* leaves the stored rows as they were.
C28_RepottingIsAtomic ==
    [][resp'.op = "repotting" =>
         IF resp'.status = "ok"
         THEN rows \subseteq rows' /\ Cardinality(rows' \ rows) = 3
         ELSE rows' = rows]_vars

-----------------------------------------------------------------------------
(* Repotting epochs and the standard writes *)

\* the row a create or an edit wrote in this step
C29_Written == CHOOSE r \in rows' : r.id = Val(resp'.id)

\* C29: a row that create_measurement or update_measurement writes with a
\* weight is stored with a last_wet and does not match the Repotting
\* predicate; a row that newly matches the predicate was inserted by
\* create_repotting_event in that step. So get_last_repotting_event returns
\* only rows of create_repotting_event that no edit has rewritten.
C29_NoForgedRepotting ==
    [][/\ (/\ resp'.op \in {"create", "update"}
           /\ resp'.committed
           /\ IsSome(C29_Written.mw))
          => (IsSome(C29_Written.lw) /\ ~IsRepotting(C29_Written))
       /\ \A r \in rows' \ rows : IsRepotting(r) => resp'.op = "repotting"]_vars

\* a Repotting row was edited with its weight kept, after which the plant has
\* no Repotting row left
C29_Witness ==
    /\ resp.op = "update" /\ resp.committed /\ IsSome(resp.mw)
    /\ \E r \in rows : /\ r.id = Val(resp.id)
                       /\ r.at % SlotsPerMinute = 3
                       /\ IsSome(r.mw) /\ IsSome(r.lw)
    /\ \A r \in rows : ~IsRepotting(r)

-----------------------------------------------------------------------------
(* Editing the water added of a Watering *)

\* C30: an edit of a stored Watering row whose payload carries only a new
\* positive water_added_g stores that value as the row's water_added_g and,
\* the row having a last_dry, a last_wet equal to last_dry + water_added_g.
C30_EditedWaterAdded ==
    (/\ resp.op = "update" /\ resp.committed
     /\ IsNone(resp.req.mw)
     /\ IsSome(resp.req.wa) /\ Val(resp.req.wa) > 0) =>
        \A r \in rows :
            (r.id = Val(resp.id) /\ IsNone(r.mw)) =>
                /\ r.wa = resp.req.wa
                /\ IsSome(r.ld) => r.lw = Some(Val(r.ld) + Val(resp.req.wa))

====
